---- MODULE Spec2Model ----
(***************************************************************************)
(* RAGExplorer back end: the tolerant answer parser, the error classifier, *)
(* the retrieval stage and the checkpointed batch evaluation driver.       *)
(*                                                                         *)
(* Texts are sequences of word tokens, so that lower-casing and substring  *)
(* search are computed and not assumed.  A raw model output is a text      *)
(* together with what the library decoders (json.loads, ast.literal_eval)  *)
(* and the two repair helpers return on it; every sample below is a        *)
(* concrete string whose profile was obtained by running the decoders.     *)
(***************************************************************************)
EXTENDS Integers, Sequences, FiniteSets, TLC

VARIABLES
    cls_in,      \* arguments of one analyze_error_type call
    cls_out,     \* what the call produced
    rag_in,      \* configuration and service behaviour of one rag_workflow call
    rag_out,     \* what the call produced
    mode,        \* "sequential" | "concurrent" (concurrent_workers <= 1 or not)
    offset,      \* rotation of the service scenarios over the dataset
    profile,     \* which family of service behaviours the dataset exercises
    outcomes,    \* what processing each question of the dataset yields
    num_q,       \* len(qa_dataset)
    pc,          \* position of the request handler
    results,     \* results_placeholder (aliased by cache_item['rag_result']['results'])
    pending,     \* future_to_index entries not yet yielded by as_completed
    loop_i,      \* index of the sequential for loop
    processed_count,
    cache_file,  \* the pickled cache record on disk
    metrics,     \* the metric keys of the in-memory cache item
    entry,       \* results array at entry of the current run
    touched,     \* questions processed in the current run (bag as function)
    interrupted, \* the process was killed since the cache was created
    saves,       \* save_callback invocations of the current run
    now,         \* the wall clock, in seconds
    rpm_limit,   \* SiliconFlowRateLimiter.rpm_limit
    tpm_limit,   \* SiliconFlowRateLimiter.tpm_limit
    request_timestamps,  \* api_key -> list of timestamps
    token_counts,        \* api_key -> list of (timestamp, tokens)
    lock,        \* the thread holding SiliconFlowRateLimiter.lock, 0 when free
    workers,     \* per thread: position in _check_and_wait and its locals
    ledger,      \* every reservation ever recorded, in order
    vs_dir,      \* the index directory: "absent" | "partial" | "complete"
    lock_file,   \* the file at lock_path: its inode (0: no file) and whether it is older than 10 minutes
    procs,       \* per process: position in load_or_create_vectorstore, inode it holds locked
    inodes,      \* lock files created so far
    builds,      \* index constructions started so far
    prs,         \* one parse_rag_response call and the call on its own final_answer
    evid,         \* one check_evidence_retrieval call: arguments, loop position, result
    xport,       \* a transport call in flight
    fpr,         \* two requests and the cache records they name
    wp,          \* the worker pool of one concurrent run
    sh,          \* two simultaneous requests for one configuration
    judge        \* one evaluate_response invocation: arguments, position, calls made, result

cls_vars == <<cls_in, cls_out>>
rag_vars == <<rag_in, rag_out>>
batch_vars == <<mode, offset, profile, outcomes, num_q, pc, results, pending, loop_i,
                processed_count, cache_file, metrics, entry, touched,
                interrupted, saves>>
lim_vars == <<now, rpm_limit, tpm_limit, request_timestamps, token_counts, lock,
              workers, ledger>>
vs_vars == <<vs_dir, lock_file, procs, inodes, builds>>
ev_vars == <<judge>>
prs_vars == <<prs>>
sh_vars == <<sh>>
wp_vars == <<wp>>
fpr_vars == <<fpr>>
xp_vars == <<xport>>
era_vars == <<evid>>
vars == <<cls_in, cls_out, rag_in, rag_out, mode, offset, profile, outcomes, num_q, pc,
          results, pending, loop_i, processed_count, cache_file, metrics,
          entry, touched, interrupted, saves, now, rpm_limit, tpm_limit,
          request_timestamps, token_counts, lock, workers, ledger,
          vs_dir, lock_file, procs, inodes, builds, judge, prs, evid, xport, fpr, wp, sh>>

\* what an operation of one component leaves alone
cls_others   == <<rag_vars, batch_vars, lim_vars, vs_vars, ev_vars, prs_vars, era_vars, xp_vars, fpr_vars, wp_vars, sh_vars>>
rag_others   == <<cls_vars, batch_vars, lim_vars, vs_vars, ev_vars, prs_vars, era_vars, xp_vars, fpr_vars, wp_vars, sh_vars>>
batch_others == <<cls_vars, rag_vars, lim_vars, vs_vars, ev_vars, prs_vars, era_vars, xp_vars, fpr_vars, wp_vars, sh_vars>>
lim_others   == <<cls_vars, rag_vars, batch_vars, vs_vars, ev_vars, prs_vars, era_vars, xp_vars, fpr_vars, wp_vars, sh_vars>>
vs_others    == <<cls_vars, rag_vars, batch_vars, lim_vars, ev_vars, prs_vars, era_vars, xp_vars, fpr_vars, wp_vars, sh_vars>>
ev_others    == <<cls_vars, rag_vars, batch_vars, lim_vars, vs_vars, prs_vars, era_vars, xp_vars, fpr_vars, wp_vars, sh_vars>>
prs_others   == <<cls_vars, rag_vars, batch_vars, lim_vars, vs_vars, ev_vars, era_vars, xp_vars, fpr_vars, wp_vars, sh_vars>>
era_others   == <<cls_vars, rag_vars, batch_vars, lim_vars, vs_vars, ev_vars, prs_vars, xp_vars, fpr_vars, wp_vars, sh_vars>>
xp_others     == <<cls_vars, rag_vars, batch_vars, lim_vars, vs_vars, ev_vars, prs_vars, era_vars, fpr_vars, wp_vars, sh_vars>>
fpr_others    == <<cls_vars, rag_vars, batch_vars, lim_vars, vs_vars, ev_vars, prs_vars, xp_vars, era_vars, wp_vars, sh_vars>>
wp_others     == <<cls_vars, rag_vars, batch_vars, lim_vars, vs_vars, ev_vars, prs_vars, fpr_vars, xp_vars, era_vars, sh_vars>>
sh_others     == <<cls_vars, rag_vars, batch_vars, lim_vars, vs_vars, ev_vars, prs_vars, wp_vars, fpr_vars, xp_vars, era_vars>>

----------------------------------------------------------------------------
(* Texts *)

\* str.lower() on one word
LowerTok(w) ==
    CASE w = "Insufficient" -> "insufficient"
      [] w = "INSUFFICIENT" -> "insufficient"
      [] w = "Information"  -> "information"
      [] w = "INFORMATION"  -> "information"
      [] w = "Paris"        -> "paris"
      [] w = "London"       -> "london"
      [] w = "No"           -> "no"
      [] w = "Error"        -> "error"
      [] OTHER              -> w

Lower(t) == [i \in DOMAIN t |-> LowerTok(t[i])]

\* the phrase  insufficient information  occurs in t (case-sensitive search)
ContainsInsufficient(t) ==
    \E i \in 1..(Len(t) - 1) : t[i] = "insufficient" /\ t[i + 1] = "information"

T_EMPTY   == << >>
T_PARIS   == <<"Paris">>
T_LONDON  == <<"London">>
T_INSUFF  == <<"Insufficient", "information">>
T_INSUFF2 == <<"INSUFFICIENT", "INFORMATION">>
T_SWAPPED == <<"information", "insufficient">>

----------------------------------------------------------------------------
(* Decoded values *)

NoField      == [type |-> "absent", text |-> << >>, items |-> << >>, num |-> 0]
NullField    == [type |-> "null",   text |-> << >>, items |-> << >>, num |-> 0]
StrField(t)  == [type |-> "str",    text |-> t,     items |-> << >>, num |-> 0]
NumField(n)  == [type |-> "num",    text |-> << >>, items |-> << >>, num |-> n]
ListField(l) == [type |-> "list",   text |-> << >>, items |-> l,     num |-> 0]

NoneVal  == [type |-> "none", keys |-> {}, fa |-> NoField, ss |-> NoField]
ListVal  == [type |-> "list", keys |-> {}, fa |-> NoField, ss |-> NoField]
StrVal   == [type |-> "str",  keys |-> {}, fa |-> NoField, ss |-> NoField]
DictVal(keys, fa, ss) == [type |-> "dict", keys |-> keys, fa |-> fa, ss |-> ss]

BOTH == {"final_answer", "supporting_sentences"}

Ok(v)  == [err |-> "ok", val |-> v]
Err(e) == [err |-> e, val |-> NoneVal]

\* bool(x) of a decoded field
Truthy(f) ==
    CASE f.type = "str"  -> f.text # << >>
      [] f.type = "num"  -> f.num # 0
      [] f.type = "list" -> f.items # << >>
      [] OTHER           -> FALSE

\* str(x) of a decoded field
StrOf(f) ==
    CASE f.type = "str"  -> f.text
      [] f.type = "num"  -> IF f.num = 42 THEN <<"42">> ELSE <<"0">>
      [] f.type = "list" -> <<"[">> \o (IF f.items = << >> THEN << >> ELSE f.items[1]) \o <<"]">>
      [] OTHER           -> <<"None">>

----------------------------------------------------------------------------
(* Raw model outputs *)

Raw(text, blank, json, lit, fixChanged, fixLit, conv) ==
    [text |-> text, blank |-> blank, json |-> json, lit |-> lit,
     fixChanged |-> fixChanged, fixLit |-> fixLit, conv |-> conv]

D_FULL   == DictVal(BOTH, StrField(T_PARIS), ListField(<<<<"s">>>>))
D_INSUFF == DictVal(BOTH, StrField(T_INSUFF), ListField(<< >>))
D_SAY    == DictVal(BOTH, StrField(<<"say", "hi", "now">>), ListField(<< >>))
D_X      == DictVal(BOTH, StrField(<<"x">>), ListField(<< >>))

\* the empty string
R_EMPTY == Raw(T_EMPTY, TRUE, Err("JSONDecodeError"), Err("SyntaxError"),
               FALSE, Err("SyntaxError"), Err("JSONDecodeError"))
\* white space only
R_BLANK == Raw(<<" ">>, TRUE, Err("JSONDecodeError"), Err("SyntaxError"),
               FALSE, Err("SyntaxError"), Err("JSONDecodeError"))
\* garbage text
R_GARBAGE == Raw(<<"garbage", "text">>, FALSE, Err("JSONDecodeError"),
                 Err("SyntaxError"), FALSE, Err("SyntaxError"), Err("JSONDecodeError"))
\* No documents found for the given query.   (rag.py:104)
R_NODOCS == Raw(<<"No", "documents", "found">>, FALSE, Err("JSONDecodeError"),
                Err("SyntaxError"), FALSE, Err("SyntaxError"), Err("JSONDecodeError"))
\* Error generating response: timeout        (rag.py:148)
R_GENERR == Raw(<<"Error", "generating", "response">>, FALSE, Err("JSONDecodeError"),
                Err("SyntaxError"), FALSE, Err("SyntaxError"), Err("JSONDecodeError"))
\* Insufficient information
R_PLAIN_INSUFF == Raw(T_INSUFF, FALSE, Err("JSONDecodeError"),
                      Err("SyntaxError"), FALSE, Err("SyntaxError"), Err("JSONDecodeError"))
\* [1,2]
R_LIST == Raw(<<"[", "1", "2", "]">>, FALSE, Ok(ListVal), Ok(ListVal),
              FALSE, Ok(ListVal), Ok(ListVal))
\* 'abc'  (a quoted Python string)
R_PYSTR == Raw(<<"'", "abc", "'">>, FALSE, Err("JSONDecodeError"), Ok(StrVal),
               FALSE, Ok(StrVal), Ok(StrVal))
\* {{'a': 'b'}} with double quotes: ast.literal_eval raises TypeError (unhashable dict)
R_SETDICT == Raw(<<"{{", "a", "b", "}}">>, FALSE, Err("JSONDecodeError"),
                 Err("TypeError"), TRUE, Err("TypeError"), Err("JSONDecodeError"))
\* {'supporting_sentences': ['s'], 'final_answer': 'Paris'}
R_FULL == Raw(<<"{", "ss:", "s", "fa:", "Paris", "}">>, FALSE, Ok(D_FULL), Ok(D_FULL),
              TRUE, Err("SyntaxError"), Ok(D_FULL))
\* the same between code fences
R_FENCED == Raw(<<"FENCEjson", "{", "ss:", "s", "fa:", "Paris", "}", "FENCE">>, FALSE,
                Ok(D_FULL), Ok(D_FULL), TRUE, Err("SyntaxError"), Ok(D_FULL))
\* {'final_answer': 'x', 'supporting_sentences': [],}      (trailing comma)
R_TRAILING == Raw(<<"{", "fa:", "x", "ss:", ",}">>, FALSE, Err("JSONDecodeError"),
                  Ok(D_X), TRUE, Err("SyntaxError"), Err("JSONDecodeError"))
\* {'supporting_sentences': [], 'final_answer': DQ say DQ hi DQ now DQ}  (DQ a double quote)
R_FIXED == Raw(<<"{", "ss:", "fa:", "say", "hi", "now", "}">>, FALSE,
               Err("JSONDecodeError"), Err("SyntaxError"), TRUE, Ok(D_SAY), Err("Hang"))
\* {'final_answer': 'Paris', 'supporting_sentences': ['s'], 'ok': true}
R_CONV == Raw(<<"{", "fa:", "Paris", "ss:", "s", "ok:", "true", "}">>, FALSE,
              Err("JSONDecodeError"), Err("ValueError"), TRUE, Err("SyntaxError"),
              Ok(DictVal(BOTH \cup {"ok"}, StrField(T_PARIS), ListField(<<<<"s">>>>))))
\* {'final_answer': true, 'supporting_sentences': []}
\* _convert_python_dict_to_json never advances past an unterminated quote
R_HANG == Raw(<<"{", "fa:", "true", "ss:", "}">>, FALSE, Err("JSONDecodeError"),
              Err("ValueError"), FALSE, Err("ValueError"), Err("Hang"))
\* {'final_answer': 'Paris'}
R_ONLYFA == Raw(<<"{", "fa:", "Paris", "}">>, FALSE,
                Ok(DictVal({"final_answer"}, StrField(T_PARIS), NoField)),
                Ok(DictVal({"final_answer"}, StrField(T_PARIS), NoField)),
                TRUE, Ok(DictVal({"other"}, NoField, NoField)),
                Ok(DictVal({"final_answer"}, StrField(T_PARIS), NoField)))
\* {'supporting_sentences': ['s']}
R_ONLYSS == Raw(<<"{", "ss:", "s", "}">>, FALSE,
                Ok(DictVal({"supporting_sentences"}, NoField, ListField(<<<<"s">>>>))),
                Ok(DictVal({"supporting_sentences"}, NoField, ListField(<<<<"s">>>>))),
                TRUE, Err("SyntaxError"),
                Ok(DictVal({"supporting_sentences"}, NoField, ListField(<<<<"s">>>>))))
\* {'answer': 'Paris'}
R_NOKEYS == Raw(<<"{", "answer:", "Paris", "}">>, FALSE,
                Ok(DictVal({"answer"}, NoField, NoField)),
                Ok(DictVal({"answer"}, NoField, NoField)),
                TRUE, Ok(DictVal({"other"}, NoField, NoField)),
                Ok(DictVal({"answer"}, NoField, NoField)))
\* {'supporting_sentences': [], 'final_answer': ''}
R_EMPTYFA == Raw(<<"{", "ss:", "fa:", "}">>, FALSE,
                 Ok(DictVal(BOTH, StrField(T_EMPTY), ListField(<< >>))),
                 Ok(DictVal(BOTH, StrField(T_EMPTY), ListField(<< >>))),
                 TRUE, Ok(DictVal({"other"}, NoField, NoField)),
                 Ok(DictVal(BOTH, StrField(T_EMPTY), ListField(<< >>))))
\* {'final_answer': null, 'supporting_sentences': 's'}
R_NULLFA == Raw(<<"{", "fa:", "null", "ss:", "s", "}">>, FALSE,
                Ok(DictVal(BOTH, NullField, StrField(<<"s">>))),
                Err("ValueError"),
                TRUE, Ok(DictVal({"other"}, NoField, NoField)),
                Ok(DictVal(BOTH, NullField, StrField(<<"s">>))))
\* {'final_answer': 42, 'supporting_sentences': []}
R_NUMFA == Raw(<<"{", "fa:", "42", "ss:", "}">>, FALSE,
               Ok(DictVal(BOTH, NumField(42), ListField(<< >>))),
               Ok(DictVal(BOTH, NumField(42), ListField(<< >>))),
               TRUE, Err("SyntaxError"),
               Ok(DictVal(BOTH, NumField(42), ListField(<< >>))))
\* {'supporting_sentences': [], 'final_answer': 'Insufficient information'}
R_INSUFF == Raw(<<"{", "ss:", "fa:", "Insufficient", "information", "}">>, FALSE,
                Ok(D_INSUFF), Ok(D_INSUFF), TRUE,
                Ok(DictVal({"other"}, NoField, NoField)), Ok(D_INSUFF))

RawOutputs == {R_EMPTY, R_BLANK, R_GARBAGE, R_NODOCS, R_GENERR, R_PLAIN_INSUFF,
               R_LIST, R_PYSTR, R_SETDICT, R_FULL, R_FENCED, R_TRAILING, R_FIXED,
               R_CONV, R_HANG, R_ONLYFA, R_ONLYSS, R_NOKEYS, R_EMPTYFA, R_NULLFA,
               R_NUMFA, R_INSUFF}

----------------------------------------------------------------------------
(* json_parser.parse_json_safely and response_parser.parse_rag_response *)

Return(v) == [status |-> "return", exc |-> "none", val |-> v]
Raise(e)  == [status |-> "raise",  exc |-> e,      val |-> NoneVal]
Hang      == [status |-> "hang",   exc |-> "none", val |-> NoneVal]

\* the last rung: _convert_python_dict_to_json, then json.loads
convert_rung(raw) ==
    IF raw.conv.err = "Hang" THEN Hang
    ELSE IF raw.conv.err = "ok" THEN Return(raw.conv.val)
    ELSE IF raw.conv.err \in {"JSONDecodeError", "ValueError", "TypeError"}
         THEN Return(NoneVal)
    ELSE Raise(raw.conv.err)

\* the except (ValueError, SyntaxError) branch: _fix_unescaped_quotes, then
\* the conversion rung
fix_rung(raw) ==
    IF raw.fixChanged /\ raw.fixLit.err = "ok" /\ raw.fixLit.val.type = "dict"
    THEN Return(raw.fixLit.val)
    ELSE convert_rung(raw)

\* ast.literal_eval(cleaned_response)
literal_rung(raw) ==
    IF raw.lit.err = "ok"
    THEN IF raw.lit.val.type = "dict" THEN Return(raw.lit.val)
         ELSE fix_rung(raw)                \* raise ValueError("Not a dictionary format")
    ELSE IF raw.lit.err \in {"ValueError", "SyntaxError"} THEN fix_rung(raw)
    ELSE Raise(raw.lit.err)                \* not caught by this handler

parse_json_safely(raw) ==
    IF raw.blank THEN Return(NoneVal)
    ELSE IF raw.json.err = "ok" THEN Return(raw.json.val)
    ELSE IF raw.json.err = "JSONDecodeError" THEN literal_rung(raw)
    ELSE Raise(raw.json.err)

Parsed(a, s) == [status |-> "return", answer |-> a, supporting |-> s]
ParsedHang   == [status |-> "hang", answer |-> << >>, supporting |-> << >>]

\* the text shown in the log line: raw_response[:200] followed by three dots
fallback_display(raw) == Parsed(raw.text \o <<"...">>, << >>)

\* return raw_response, []
fallback(raw) == Parsed(raw.text, << >>)

parse_rag_response(raw) ==
    LET r == parse_json_safely(raw) IN
    IF r.status = "hang" THEN ParsedHang
    ELSE IF r.status = "raise"
         THEN IF r.exc \in {"JSONDecodeError", "KeyError", "TypeError",
                            "ValueError", "SyntaxError"}
              THEN fallback(raw)
              ELSE [status |-> "raise", answer |-> << >>, supporting |-> << >>]
    ELSE IF r.val.type = "none" THEN fallback(raw)
    ELSE IF r.val.type = "dict"
         THEN LET ss0 == IF "supporting_sentences" \in r.val.keys
                         THEN r.val.ss ELSE ListField(<< >>)
                  fa0 == IF "final_answer" \in r.val.keys
                         THEN r.val.fa ELSE StrField(raw.text)
                  ss  == IF ss0.type = "list" THEN ss0.items
                         ELSE IF Truthy(ss0) THEN <<StrOf(ss0)>> ELSE << >>
                  fa  == IF fa0.type = "str" THEN fa0.text
                         ELSE IF Truthy(fa0) THEN StrOf(fa0) ELSE << >>
              IN Parsed(fa, ss)
    ELSE fallback(raw)

----------------------------------------------------------------------------
(* evaluator.evaluate_response *)

\* full_response.strip().lower() on the judgment service's reply
NormalizeReply(r) ==
    CASE r = "True"      -> "true"
      [] r = " true "    -> "true"
      [] r = "YES"       -> "yes"
      [] r = "False"     -> "false"
      [] r = "Correct."  -> "correct."
      [] r = "yes\n"     -> "yes"
      [] r = "Right"     -> "right"
      [] r = "TRUE"      -> "true"
      [] r = "No"        -> "no"
      [] r = "Yes, it is correct" -> "yes, it is correct"
      [] OTHER           -> r

positive_responses == {"true", "yes", "correct", "right"}

OracleReplies == {"True", " true ", "YES", "right", "False", "Correct.", "FAIL"}

\* reply = "FAIL": call_openai_api raised, caught by the except branch
\* reply = "NONE": the completion carried no content, strip() raised
evaluate_response(reply) ==
    IF reply \in {"FAIL", "NONE"} THEN FALSE
    ELSE NormalizeReply(reply) \in positive_responses

----------------------------------------------------------------------------
(* error_analysis.analyze_error_type *)

HitCounts(c, b, t) == [context_hits |-> c, backup_hits |-> b, total_evidence |-> t]

\* the dict check_evidence_retrieval returns: with hit_counts, or a status only
\* relevant_ranks: the ranks, in the list context + backup, of the documents that
\* match the evidence (AP and MRR are computed from them)
Analysis(hc, rr) == [has_hits |-> TRUE, hit_counts |-> hc, relevant_ranks |-> rr]
NoAnalysis       == [has_hits |-> FALSE, hit_counts |-> HitCounts(0, 0, 0),
                     relevant_ranks |-> << >>]

\* a threshold that also fires at exactly 0.70
below_threshold_inclusive(hits, total) == 10 * hits <= 7 * total

\* hits / total < 0.7 in IEEE double arithmetic.  The quotient and the literal
\* 0.7 are both correctly rounded, so for counts below 2^50 the comparison
\* agrees with the exact one, 10 * hits < 7 * total.
below_threshold(hits, total) == 10 * hits < 7 * total

\* .strip().lower().replace('(fp4)','').replace('(fp6)','').replace('(fp7)','').strip()
NormalizeVerdict(r) ==
    CASE r = "Incomplete (FP7)"            -> "incomplete"
      [] r = " INCORRECT_SPECIFICITY "     -> "incorrect_specificity"
      [] r = "not_extracted (FP4)"         -> "not_extracted"
      [] r = "I think it is incomplete"    -> "i think it is incomplete"
      [] OTHER                             -> r

ClassifierReplies == {"incomplete", "Incomplete (FP7)", " INCORRECT_SPECIFICITY ",
                      "not_extracted (FP4)", "I think it is incomplete", "FAIL"}

Label(l, calls) == [status |-> "return", error_type |-> l, llm_calls |-> calls]
NoLabel(st)     == [status |-> st, error_type |-> "none", llm_calls |-> 0]

\* the reply compared with the two tokens as it came
generation_verdict_verbatim(llm) ==
    IF llm \in {"incorrect_specificity", "incomplete"} THEN Label(llm, 1)
    ELSE Label("unknown", 1)

\* Step 4b: the external classifier call
generation_verdict(llm) ==
    IF llm = "FAIL" THEN Label("unknown", 1)
    ELSE IF NormalizeVerdict(llm) \in {"incorrect_specificity", "incomplete"}
         THEN Label(NormalizeVerdict(llm), 1)
    ELSE Label("unknown", 1)

\* the retrieval rules with the context threshold consulted before the pool threshold
retrieval_rules_context_first(era, llm) ==
    LET hc == era.hit_counts
        applies == era.has_hits /\ hc.total_evidence > 0
    IN IF applies /\ below_threshold(hc.context_hits, hc.total_evidence)
       THEN Label("not_in_context", 0)
       ELSE IF applies /\ below_threshold(hc.context_hits + hc.backup_hits, hc.total_evidence)
       THEN Label("missed_top_ranked_documents", 0)
       ELSE IF applies /\ hc.context_hits = hc.total_evidence
       THEN Label("not_extracted", 0)
       ELSE generation_verdict(llm)

\* the retrieval rules without the deterministic not_extracted rule
retrieval_rules_no_step4a(era, llm) ==
    LET hc == era.hit_counts
        applies == era.has_hits /\ hc.total_evidence > 0
    IN IF applies /\ below_threshold(hc.context_hits + hc.backup_hits, hc.total_evidence)
       THEN Label("missed_top_ranked_documents", 0)
       ELSE IF applies /\ below_threshold(hc.context_hits, hc.total_evidence)
       THEN Label("not_in_context", 0)
       ELSE generation_verdict(llm)

\* Steps 3 and 4a: the retrieval rules and the deterministic not_extracted rule
retrieval_rules(era, llm) ==
    LET hc == era.hit_counts
        applies == era.has_hits /\ hc.total_evidence > 0
    IN IF applies /\ below_threshold(hc.context_hits + hc.backup_hits, hc.total_evidence)
       THEN Label("missed_top_ranked_documents", 0)
       ELSE IF applies /\ below_threshold(hc.context_hits, hc.total_evidence)
       THEN Label("not_in_context", 0)
       ELSE IF applies /\ hc.context_hits = hc.total_evidence
       THEN Label("not_extracted", 0)
       ELSE generation_verdict(llm)

\* the key check consulted only when no retrieval rule has fired
format_rules_keys_last(raw_response, era, llm) ==
    LET response_data == parse_json_safely(raw_response)
        retrieval     == retrieval_rules(era, llm)
    IN
    IF response_data.status # "return" THEN NoLabel(response_data.status)
    ELSE IF response_data.val.type # "dict" THEN Label("wrong_format", 0)
    ELSE IF retrieval.llm_calls = 0 THEN retrieval
    ELSE IF ~ ("final_answer" \in response_data.val.keys
               /\ "supporting_sentences" \in response_data.val.keys)
         THEN Label("incomplete", 0)
    ELSE retrieval

\* FP5 and the key check
format_rules(raw_response, era, llm) ==
    LET response_data == parse_json_safely(raw_response) IN
    IF response_data.status # "return" THEN NoLabel(response_data.status)
    ELSE IF response_data.val.type # "dict" THEN Label("wrong_format", 0)
    ELSE IF ~ ("final_answer" \in response_data.val.keys
               /\ "supporting_sentences" \in response_data.val.keys)
         THEN Label("incomplete", 0)
    ELSE retrieval_rules(era, llm)

\* a classifier that applies the format rules before the missing-content rule
analyze_error_type_format_first(is_correct, response, ground_truth, era, raw_response, llm) ==
    LET gt_is_insufficient  == ContainsInsufficient(Lower(ground_truth))
        res_is_insufficient == ContainsInsufficient(Lower(response))
        fmt == format_rules(raw_response, era, llm)
    IN IF is_correct THEN Label("correct", 0)
       ELSE IF fmt.status = "return" /\ fmt.error_type \in {"wrong_format", "incomplete"}
            THEN fmt
       ELSE IF gt_is_insufficient /\ ~ res_is_insufficient
            THEN Label("missing_content", 0)
       ELSE fmt

analyze_error_type(is_correct, response, ground_truth, era, raw_response, llm) ==
    LET gt_is_insufficient  == ContainsInsufficient(Lower(ground_truth))
        res_is_insufficient == ContainsInsufficient(Lower(response))
    IN IF is_correct THEN Label("correct", 0)
       ELSE IF gt_is_insufficient /\ ~ res_is_insufficient
            THEN Label("missing_content", 0)
       ELSE format_rules(raw_response, era, llm)

----------------------------------------------------------------------------
(* reranker.rerank_documents and rag.OptimizedRAG.rag_workflow *)

MaxDocs  == 3      \* chunk ids of the corpus: 1..MaxDocs
MaxK     == 3      \* k ranges over 1..MaxK
MaxRange == 3      \* rerank_range ranges over 1..MaxRange

Min(a, b) == IF a < b THEN a ELSE b

\* s[:n] and s[n:] of a Python list, for n >= 0

\* a context cut from the tail of the list
Take_last(s, n) == SubSeq(s, Len(s) - Min(n, Len(s)) + 1, Len(s))

Take(s, n) == SubSeq(s, 1, Min(n, Len(s)))

\* a backup list that keeps the top k documents as well
Drop_nothing(s, n) == s

Drop(s, n) == SubSeq(s, Min(n, Len(s)) + 1, Len(s))

\* the reranker's reply: a failed call, or a list of 1-based indices into the
\* documents sent (the service names every document at most once)
RerankFail     == [ok |-> FALSE, order |-> << >>]
RerankOrder(o) == [ok |-> TRUE, order |-> o]

\* rerank_documents(..., raise_on_error=False): the original order on failure
rerank_documents_fallback(docs, has_rerank_function, reply) ==
    IF ~ has_rerank_function \/ docs = << >>
    THEN [status |-> "return", docs |-> docs]
    ELSE IF ~ reply.ok \/ \E j \in DOMAIN reply.order : reply.order[j] \notin DOMAIN docs
    THEN [status |-> "return", docs |-> docs]
    ELSE [status |-> "return",
          docs   |-> [j \in DOMAIN reply.order |->
                        [id |-> docs[reply.order[j]].id, score |-> "rerank"]]]

\* rerank_documents(..., raise_on_error=True)
rerank_documents(docs, has_rerank_function, reply) ==
    IF ~ has_rerank_function \/ docs = << >>
    THEN [status |-> "return", docs |-> docs]
    ELSE IF ~ reply.ok
    THEN [status |-> "raise", docs |-> << >>]                \* rerank() raised
    ELSE IF \E j \in DOMAIN reply.order : reply.order[j] \notin DOMAIN docs
    THEN [status |-> "raise", docs |-> << >>]                \* IndexError
    ELSE [status |-> "return",
          docs   |-> [j \in DOMAIN reply.order |->
                        [id |-> docs[reply.order[j]].id, score |-> "rerank"]]]

RagResult(st, ctx, bak, resp, rr, gen) ==
    [status |-> st, retrieved_docs |-> ctx, backup_docs |-> bak, response |-> resp,
     rerank_calls |-> rr, llm_calls |-> gen]

\* the partition into top k and backup, and the generation call
partition_and_generate(cfg, docs, svc, rr) ==
    LET top_k_docs  == Take(docs, cfg.k)
        backup_docs == IF Len(docs) > cfg.k THEN Drop(docs, cfg.k) ELSE << >>
        response    == IF svc.gen_ok THEN svc.gen ELSE R_GENERR
    IN RagResult("return", top_k_docs, backup_docs, response, rr, 1)

\* an empty pool reported with the empty response of a rerank failure
rag_workflow_empty_pool_as_failure(cfg, svc) ==
    IF ~ svc.embed_ok THEN RagResult("raise", << >>, << >>, R_EMPTY, 0, 0)
    ELSE LET docs == [j \in DOMAIN svc.pool |-> [id |-> svc.pool[j], score |-> "cosine"]]
         IN IF docs = << >>
            THEN RagResult("return", << >>, << >>, R_EMPTY, 0, 0)
            ELSE IF cfg.rerank_model
            THEN LET rr == rerank_documents(docs, TRUE, svc.rerank)
                 IN IF rr.status = "raise"
                    THEN RagResult("return", << >>, << >>, R_EMPTY, 1, 0)
                    ELSE partition_and_generate(cfg, rr.docs, svc, 1)
            ELSE partition_and_generate(cfg, docs, svc, 0)

rag_workflow(cfg, svc) ==
    IF ~ svc.embed_ok THEN RagResult("raise", << >>, << >>, R_EMPTY, 0, 0)
    ELSE LET docs == [j \in DOMAIN svc.pool |-> [id |-> svc.pool[j], score |-> "cosine"]]
         IN IF docs = << >>
            THEN RagResult("return", << >>, << >>, R_NODOCS, 0, 0)
            ELSE IF cfg.rerank_model
            THEN LET rr == rerank_documents(docs, TRUE, svc.rerank)
                 IN IF rr.status = "raise"
                    THEN RagResult("return", << >>, << >>, R_EMPTY, 1, 0)
                    ELSE partition_and_generate(cfg, rr.docs, svc, 1)
            ELSE partition_and_generate(cfg, docs, svc, 0)

----------------------------------------------------------------------------
(* Exact fractions for the scores Python computes in floating point *)

RECURSIVE GCD(_, _)
GCD(a, b) == IF b = 0 THEN a ELSE GCD(b, a % b)

\* num/den in lowest terms, den > 0
Rat(n, d) == LET g == GCD(n, d) IN IF n = 0 THEN [num |-> 0, den |-> 1]
                                   ELSE [num |-> n \div g, den |-> d \div g]

Zero == Rat(0, 1)

RatAdd(a, b) == Rat(a.num * b.den + b.num * a.den, a.den * b.den)

RECURSIVE RatSum(_)
RatSum(s) == IF s = << >> THEN Zero ELSE RatAdd(Head(s), RatSum(Tail(s)))

\* x / n if n > 0 else 0.0
RatOver(x, n) == IF n > 0 THEN Rat(x.num, x.den * n) ELSE Zero

----------------------------------------------------------------------------
(* evidence_analyzer.check_evidence_retrieval *)

\* one evidence item: its fact may be empty, the lookup may raise, and ids are
\* the chunks the index finds for it
Evidence(fact_empty, lookup_ok, ids) ==
    [fact_empty |-> fact_empty, lookup_ok |-> lookup_ok, ids |-> ids]

\* ids kept for an item whatever happened to its lookup
found_ids_ignoring_failure(ev) == ev.ids

found_ids(ev) == IF ev.fact_empty \/ ~ ev.lookup_ok THEN {} ELSE ev.ids

Ids(docs) == {docs[j].id : j \in DOMAIN docs}

\* hits counted per list position instead of per distinct chunk id
check_evidence_retrieval_per_position(evidence_list, retrieved_docs, backup_docs, has_vectorstore) ==
    IF evidence_list = << >> \/ ~ has_vectorstore THEN NoAnalysis
    ELSE LET all_true_doc_ids == UNION {found_ids(evidence_list[j]) : j \in DOMAIN evidence_list}
             Hits(docs)       == Cardinality({j \in DOMAIN docs : docs[j].id \in all_true_doc_ids})
             ranked           == retrieved_docs \o backup_docs
             IsRelevant(r)    == ranked[r].id \in all_true_doc_ids
         IN Analysis(HitCounts(Hits(retrieved_docs), Hits(backup_docs),
                               Cardinality(all_true_doc_ids)),
                     SelectSeq([r \in 1..Len(ranked) |-> r], IsRelevant))

check_evidence_retrieval(evidence_list, retrieved_docs, backup_docs, has_vectorstore) ==
    IF evidence_list = << >> \/ ~ has_vectorstore THEN NoAnalysis
    ELSE LET context_doc_ids  == Ids(retrieved_docs)
             pool_doc_ids     == context_doc_ids \cup Ids(backup_docs)
             all_true_doc_ids == UNION {found_ids(evidence_list[j]) : j \in DOMAIN evidence_list}
             context_hits     == Cardinality(context_doc_ids \cap all_true_doc_ids)
             backup_hits      == Cardinality(pool_doc_ids \cap all_true_doc_ids) - context_hits
             ranked           == retrieved_docs \o backup_docs
             IsRelevant(r)    == ranked[r].id \in all_true_doc_ids
         IN Analysis(HitCounts(context_hits, backup_hits, Cardinality(all_true_doc_ids)),
                     SelectSeq([r \in 1..Len(ranked) |-> r], IsRelevant))

----------------------------------------------------------------------------
(* workflow.SimpleWorkflow: one question *)

\* mrr = 1.0 / first_hit_rank if first_hit_rank > 0 else 0.0
mrr_score(a) ==
    IF a.relevant_ranks = << >> THEN Zero ELSE Rat(1, a.relevant_ranks[1])

\* ap = ap_sum / total_relevant_docs, ap_sum adding the precision j / rank at
\* the rank of the j-th relevant document
ap(a) ==
    LET rr == a.relevant_ranks
        ap_sum == RatSum([j \in 1..Len(rr) |-> Rat(j, rr[j])])
    IN RatOver(ap_sum, a.hit_counts.total_evidence)

Details(st, answer, supporting, ctx, bak, raw) ==
    [status |-> st, answer |-> answer, supporting_sentences |-> supporting,
     retrieved_docs |-> ctx, backup_docs |-> bak, raw_response |-> raw]

query_rag_with_details(cfg, svc) ==
    LET r == rag_workflow(cfg, svc) IN
    IF r.status = "raise"
    THEN Details("return", << >>, << >>, << >>, << >>, R_EMPTY)     \* except Exception
    ELSE IF r.response.text = << >>
    THEN Details("return", << >>, << >>, r.retrieved_docs, r.backup_docs, R_EMPTY)
    ELSE LET p == parse_rag_response(r.response) IN
         IF p.status = "hang"
         THEN Details("hang", << >>, << >>, << >>, << >>, R_EMPTY)
         ELSE IF p.status = "raise"
         THEN Details("return", << >>, << >>, << >>, << >>, R_EMPTY)
         ELSE Details("return", p.answer, p.supporting, r.retrieved_docs,
                      r.backup_docs, r.response)

\* a dataset question together with what the external services answer for it
Scenario(answer, evidence, embed_ok, pool, rerank, gen_ok, gen, oracle, llm) ==
    [answer |-> answer, evidence_list |-> evidence, embed_ok |-> embed_ok,
     pool |-> pool, rerank |-> rerank, gen_ok |-> gen_ok, gen |-> gen,
     oracle |-> oracle, llm |-> llm]

Placeholder ==
    [filled |-> FALSE, query |-> 0, response |-> << >>, raw_response |-> << >>,
     correct |-> FALSE, error_type |-> "none", analysis |-> NoAnalysis]

QuestionResult(query, d, correct, era, label) ==
    [filled |-> TRUE, query |-> query, response |-> d.answer,
     raw_response |-> d.raw_response.text, correct |-> correct,
     error_type |-> label, analysis |-> era]

Outcome(st, res) == [status |-> st, result |-> res]

\* _process_rag_question, and the identical body of the sequential loop
process_rag_question(query, cfg, sc) ==
    LET d == query_rag_with_details(cfg, sc) IN
    IF d.status = "hang" THEN Outcome("hang", Placeholder)
    ELSE LET is_rag_correct == evaluate_response(sc.oracle)
             era == check_evidence_retrieval(sc.evidence_list, d.retrieved_docs,
                                             d.backup_docs, TRUE)
             ea  == analyze_error_type(is_rag_correct, d.answer, sc.answer, era,
                                       d.raw_response, sc.llm)
         IN IF ea.status # "return" THEN Outcome(ea.status, Placeholder)
            ELSE Outcome("return", QuestionResult(query, d, is_rag_correct, era, ea.error_type))

----------------------------------------------------------------------------
(* workflow.SimpleWorkflow and server.evaluate_configuration: data *)

test_size           == 20     \* sequential checkpoint interval
concurrent_interval == 10     \* worker-pool checkpoint interval

MaxSequentialQ == 21          \* dataset size of the sequential runs
MaxConcurrentQ == 11          \* dataset size of the worker-pool runs

\* the configuration of the batch runs
BatchCfg == [k |-> 2, rerank_range |-> 3, rerank_model |-> TRUE]

S_CORRECT == Scenario(T_PARIS, <<Evidence(FALSE, TRUE, {1})>>, TRUE, <<1, 2, 3>>,
                      RerankOrder(<<2, 1, 3>>), TRUE, R_FULL, "True", "FAIL")
S_WRONG == Scenario(T_LONDON, <<Evidence(FALSE, TRUE, {1, 2})>>, TRUE, <<1, 2, 3>>,
                    RerankOrder(<<1, 2, 3>>), TRUE, R_FULL, "False", "FAIL")
S_NODOCS == Scenario(T_PARIS, <<Evidence(FALSE, TRUE, {1})>>, TRUE, << >>,
                     RerankOrder(<< >>), TRUE, R_FULL, "False", "FAIL")
S_GENFAIL == Scenario(T_PARIS, << >>, TRUE, <<3, 1>>,
                      RerankOrder(<<2, 1>>), FALSE, R_FULL, "False", "FAIL")
S_EMBEDFAIL == Scenario(T_PARIS, <<Evidence(FALSE, TRUE, {1})>>, FALSE, <<1, 2, 3>>,
                        RerankOrder(<<1, 2, 3>>), TRUE, R_FULL, "False", "FAIL")
S_RERANKFAIL == Scenario(T_PARIS, <<Evidence(FALSE, TRUE, {1})>>, TRUE, <<1, 2, 3>>,
                         RerankFail, TRUE, R_FULL, "False", "FAIL")
S_EMPTYGEN == Scenario(T_PARIS, <<Evidence(FALSE, TRUE, {3})>>, TRUE, <<1, 2, 3>>,
                       RerankOrder(<<1, 2, 3>>), TRUE, R_EMPTY, "False", "FAIL")
S_EMPTYPARSED == Scenario(T_PARIS, <<Evidence(TRUE, TRUE, {1})>>, TRUE, <<1, 2, 3>>,
                          RerankOrder(<<1, 2, 3>>), TRUE, R_EMPTYFA, "False", "incomplete")
S_RAISE == Scenario(T_PARIS, <<Evidence(FALSE, FALSE, {1})>>, TRUE, <<1, 2, 3>>,
                    RerankOrder(<<3, 2, 1>>), TRUE, R_SETDICT, "False", "FAIL")
S_HANG == Scenario(T_PARIS, <<Evidence(FALSE, TRUE, {1})>>, TRUE, <<1, 2, 3>>,
                   RerankOrder(<<1, 2, 3>>), TRUE, R_HANG, "False", "FAIL")

\* the behaviours a dataset cycles through
ProfileScenarios(pr) ==
    CASE pr = "healthy" -> <<S_CORRECT, S_WRONG, S_NODOCS, S_GENFAIL>>
      [] pr = "failing" -> <<S_CORRECT, S_EMBEDFAIL, S_WRONG, S_RERANKFAIL,
                             S_EMPTYGEN, S_EMPTYPARSED>>
      [] pr = "raising" -> <<S_CORRECT, S_RAISE, S_WRONG, S_EMPTYGEN>>
      [] pr = "hanging" -> <<S_CORRECT, S_HANG, S_WRONG>>
      [] pr = "quiet"   -> <<S_CORRECT, S_EMPTYPARSED, S_WRONG, S_NODOCS>>

Profiles == {"healthy", "failing", "raising", "hanging"}

\* qa_dataset[i] and the services' behaviour on it: deterministic per question
ScenarioOf(pr, off, i) ==
    ProfileScenarios(pr)[((i - 1 + off) % Len(ProfileScenarios(pr))) + 1]

NoMetrics == [exists |-> FALSE, correct |-> 0, total |-> 0, context_hits |-> 0,
              evidence_count |-> 0, eligible |-> 0, final |-> FALSE,
              accuracy |-> [num |-> 0, den |-> 1],
              rag_recall |-> [num |-> 0, den |-> 1], rag_mrr |-> [num |-> 0, den |-> 1],
              rag_map |-> [num |-> 0, den |-> 1]]

NoFile == [exists |-> FALSE, results |-> << >>, metrics |-> NoMetrics]

\* pickle.dump(cached_result): the results array and the metric keys
save_individual_cache(res, m) == [exists |-> TRUE, results |-> res, metrics |-> m]

\* resuming after as many questions as the array holds results
needs_processing_prefix(res, i) ==
    i > Cardinality({j \in DOMAIN res : res[j].filled})

\* i >= len(results_placeholder) or results_placeholder[i] is None
needs_processing(res, i) == i > Len(res) \/ ~ res[i].filled

\* a future for every question of the dataset
submitted_all(res, n) == 1..n

\* the keys of future_to_index: one future per question that needs processing
submitted(res, n) == {i \in 1..n : needs_processing(res, i)}

\* whether the loop stores a returned result in its slot
accepts(md, result) ==
    IF md = "sequential" THEN TRUE
    ELSE result.raw_response # << >> /\ result.response # << >>

RECURSIVE SumSeq(_)
SumSeq(s) == IF s = << >> THEN 0 ELSE Head(s) + SumSeq(Tail(s))

\* every stored result that carries hit counts
Eligible_with_analysis(r) == r.filled /\ r.analysis.has_hits

Eligible(r) == r.filled /\ r.analysis.has_hits /\ r.analysis.hit_counts.total_evidence > 0

correct_count(res) ==
    SumSeq([i \in 1..Len(res) |-> IF res[i].filled /\ res[i].correct THEN 1 ELSE 0])

\* the share of correct answers among the slots that hold a result
accuracy_over_filled(res, n) ==
    LET filled == Cardinality({i \in 1..Len(res) : res[i].filled})
    IN IF filled > 0 THEN [num |-> correct_count(res) * 100, den |-> filled]
       ELSE [num |-> 0, den |-> 1]

\* (correct / len(qa_dataset)) * 100 if qa_dataset else 0, as the fraction num/den
accuracy(res, n) ==
    IF n > 0 THEN [num |-> correct_count(res) * 100, den |-> n]
    ELSE [num |-> 0, den |-> 1]

\* the metric keys batch_evaluate_configuration writes into the cache item
aggregate(res, n) ==
    LET Correct(r)  == IF r.filled /\ r.correct THEN 1 ELSE 0
        CtxHits(r)  == IF Eligible(r) THEN r.analysis.hit_counts.context_hits ELSE 0
        Evidence1(r) == IF Eligible(r) THEN r.analysis.hit_counts.total_evidence ELSE 0
        Elig(r)     == IF Eligible(r) THEN 1 ELSE 0
        \* mrr_score and ap are added for every result that has the key
        Mrr(r)      == IF r.filled /\ r.analysis.has_hits THEN mrr_score(r.analysis) ELSE Zero
        Ap(r)       == IF r.filled /\ r.analysis.has_hits THEN ap(r.analysis) ELSE Zero
        total_context_hits   == SumSeq([i \in 1..Len(res) |-> CtxHits(res[i])])
        total_evidence_count == SumSeq([i \in 1..Len(res) |-> Evidence1(res[i])])
        retrieval_eligible_questions == SumSeq([i \in 1..Len(res) |-> Elig(res[i])])
        total_reciprocal_rank == RatSum([i \in 1..Len(res) |-> Mrr(res[i])])
        total_ap              == RatSum([i \in 1..Len(res) |-> Ap(res[i])])
    IN [exists |-> TRUE, correct |-> SumSeq([i \in 1..Len(res) |-> Correct(res[i])]), total |-> n,
        context_hits |-> SumSeq([i \in 1..Len(res) |-> CtxHits(res[i])]),
        evidence_count |-> SumSeq([i \in 1..Len(res) |-> Evidence1(res[i])]),
        eligible |-> SumSeq([i \in 1..Len(res) |-> Elig(res[i])]), final |-> FALSE,
        accuracy |-> accuracy(res, n),
        rag_recall |-> RatOver(Rat(total_context_hits, 1), total_evidence_count),
        rag_mrr |-> RatOver(total_reciprocal_rank, retrieval_eligible_questions),
        rag_map |-> RatOver(total_ap, retrieval_eligible_questions)]

\* any existing record counts as complete
cache_complete_if_exists(file, n) == file.exists

\* rag_results is not None and all(...) and len(rag_results) == total_questions
cache_complete(file, n) ==
    /\ file.exists
    /\ Len(file.results) = n
    /\ \A i \in DOMAIN file.results : file.results[i].filled

----------------------------------------------------------------------------
(* The classifier applied to bounded inputs *)

MaxEvidence == 10      \* total_evidence ranges over 0..MaxEvidence

ClsTruths    == {T_PARIS, T_INSUFF, T_SWAPPED}
ClsResponses == {T_LONDON, T_INSUFF2}
ClsRaws      == {R_EMPTY, R_GARBAGE, R_LIST, R_SETDICT, R_HANG, R_FULL, R_FIXED,
                 R_ONLYFA, R_NOKEYS}
ClsLlm       == {"incomplete", "Incomplete (FP7)", " INCORRECT_SPECIFICITY ",
                 "not_extracted (FP4)", "FAIL"}

\* the hit counts check_evidence_retrieval can return
ClsAnalyses ==
    {NoAnalysis} \cup
    {Analysis(HitCounts(c, t - c - u, t), << >>) :
        <<t, c, u>> \in {x \in (0..MaxEvidence) \X (0..MaxEvidence) \X (0..MaxEvidence) :
                            x[2] + x[3] <= x[1]}}

ClsIdle == /\ cls_in = [is_correct |-> TRUE, response |-> << >>, ground_truth |-> << >>,
                        raw |-> R_EMPTY, era |-> NoAnalysis, llm |-> "FAIL"]
           /\ cls_out = [called |-> FALSE, res |-> NoLabel("none")]

RagIdle == /\ rag_in = [cfg |-> [k |-> 1, rerank_range |-> 1, rerank_model |-> FALSE],
                        svc |-> [embed_ok |-> TRUE, pool |-> << >>, rerank |-> RerankFail,
                                 gen_ok |-> TRUE, gen |-> R_EMPTY]]
           /\ rag_out = [called |-> FALSE,
                         res |-> RagResult("none", << >>, << >>, R_EMPTY, 0, 0)]

BatchIdle ==
    /\ mode = "sequential" /\ offset = 0 /\ profile = "healthy" /\ outcomes = << >> /\ num_q = 0
    /\ pc = "off" /\ results = << >> /\ pending = {} /\ loop_i = 0
    /\ processed_count = 0 /\ cache_file = NoFile
    /\ metrics = NoMetrics /\ entry = << >> /\ touched = << >>
    /\ interrupted = FALSE /\ saves = 0

LimIdle ==
    /\ now = 0 /\ rpm_limit = 0 /\ tpm_limit = 0
    /\ request_timestamps = << >> /\ token_counts = << >>
    /\ lock = 0 /\ workers = << >> /\ ledger = << >>

VsIdle ==
    /\ vs_dir = "absent" /\ lock_file = [inode |-> 0, aged |-> FALSE]
    /\ procs = << >> /\ inodes = 0 /\ builds = 0

EvIdle == judge = [pc |-> "idle"]

PrsIdle == prs = [pc |-> "idle"]

ShIdle == sh = [pc |-> "idle"]

WpIdle == wp = [pc |-> "idle"]

FprIdle == fpr = [pc |-> "idle"]

XpIdle == xport = [pc |-> "idle"]

EraIdle == evid = [pc |-> "idle"]

InitClassify ==
    /\ cls_in \in [is_correct : BOOLEAN, response : ClsResponses,
                   ground_truth : ClsTruths, raw : ClsRaws, era : ClsAnalyses,
                   llm : ClsLlm]
    /\ cls_out = [called |-> FALSE, res |-> NoLabel("none")]
    /\ RagIdle /\ BatchIdle /\ LimIdle /\ VsIdle /\ EvIdle /\ PrsIdle /\ EraIdle /\ XpIdle /\ FprIdle /\ WpIdle /\ ShIdle

Classify ==
    /\ ~ cls_out.called
    /\ cls_out' = [called |-> TRUE,
                   res |-> analyze_error_type(cls_in.is_correct, cls_in.response,
                                              cls_in.ground_truth, cls_in.era,
                                              cls_in.raw, cls_in.llm)]
    /\ UNCHANGED <<cls_in, cls_others>>

NextClassify == Classify

SpecClassify == InitClassify /\ [][NextClassify]_vars

----------------------------------------------------------------------------
(* rag_workflow applied to bounded inputs *)

\* the lists of distinct chunk ids the index can return for k = n
Pools(n) ==
    UNION {{p \in [1..l -> 1..MaxDocs] : \A a, b \in 1..l : a # b => p[a] # p[b]} :
              l \in 0..Min(n, MaxDocs)}

Identity(n) == [j \in 1..n |-> j]
Reverse(n)  == [j \in 1..n |-> n + 1 - j]

\* replies of the rerank service for n documents
RerankReplies(n) ==
    {RerankFail, RerankOrder(Identity(n)), RerankOrder(Reverse(n)),
     RerankOrder(Take(Reverse(n), 1)), RerankOrder(<<n + 1>>)}

InitRetrieve ==
    /\ \E k \in 1..MaxK, rr \in 1..MaxRange, rm \in BOOLEAN, eo \in BOOLEAN,
          go \in BOOLEAN, g \in {R_FULL, R_EMPTY} :
         \E pool \in Pools(rr) :
           \E reply \in RerankReplies(Len(pool)) :
             rag_in = [cfg |-> [k |-> k, rerank_range |-> rr, rerank_model |-> rm],
                       svc |-> [embed_ok |-> eo, pool |-> pool, rerank |-> reply,
                                gen_ok |-> go, gen |-> g]]
    /\ rag_out = [called |-> FALSE, res |-> RagResult("none", << >>, << >>, R_EMPTY, 0, 0)]
    /\ ClsIdle /\ BatchIdle /\ LimIdle /\ VsIdle /\ EvIdle /\ PrsIdle /\ EraIdle /\ XpIdle /\ FprIdle /\ WpIdle /\ ShIdle

Retrieve ==
    /\ ~ rag_out.called
    /\ rag_out' = [called |-> TRUE, res |-> rag_workflow(rag_in.cfg, rag_in.svc)]
    /\ UNCHANGED <<rag_in, rag_others>>

NextRetrieve == Retrieve

SpecRetrieve == InitRetrieve /\ [][NextRetrieve]_vars

----------------------------------------------------------------------------
(* Properties of the classifier *)

Labels == {"correct", "missing_content", "wrong_format", "incomplete",
           "missed_top_ranked_documents", "not_in_context", "not_extracted",
           "incorrect_specificity", "unknown"}

\* the reference answer asks for, and the prediction gives, the phrase
TruthInsufficient    == ContainsInsufficient(Lower(cls_in.ground_truth))
ResponseInsufficient == ContainsInsufficient(Lower(cls_in.response))

\* some rung of the ladder decodes the raw output to a mapping
DecodesToMapping(raw) ==
    /\ parse_json_safely(raw).status = "return"
    /\ parse_json_safely(raw).val.type = "dict"

HasBothKeys(raw) == BOTH \subseteq parse_json_safely(raw).val.keys

\* C5: every call of analyze_error_type returns exactly one of the nine labels,
\* and the label is correct exactly when the correctness flag is true.
C5_EveryInputLabelled ==
    cls_out.called =>
        /\ cls_out.res.status = "return"
        /\ cls_out.res.error_type \in Labels
        /\ (cls_out.res.error_type = "correct") <=> cls_in.is_correct

\* C6 as claimed: an incorrect answer whose reference answer contains the phrase
\* is labelled missing_content whatever the predicted answer is.
C6_MissingContentAlways ==
    (cls_out.called /\ ~ cls_in.is_correct /\ TruthInsufficient) =>
        (cls_out.res.status = "return" /\ cls_out.res.error_type = "missing_content")

\* C6 amended: an incorrect answer whose reference answer contains the phrase
\* and whose predicted answer does not contain it is labelled missing_content,
\* whatever the raw output and the hit counts are, and without a classifier call.
C6_MissingContentUnlessEchoed ==
    (cls_out.called /\ ~ cls_in.is_correct /\ TruthInsufficient
        /\ ~ ResponseInsufficient) =>
        /\ cls_out.res.status = "return"
        /\ cls_out.res.error_type = "missing_content"
        /\ cls_out.res.llm_calls = 0

\* rule 2 fired on a raw output that the parser cannot decode and on hit counts
\* that would satisfy a retrieval rule
C6_Witness ==
    /\ cls_out.called /\ ~ cls_in.is_correct
    /\ TruthInsufficient /\ ~ ResponseInsufficient
    /\ cls_in.raw = R_SETDICT
    /\ cls_in.era.has_hits /\ cls_in.era.hit_counts = HitCounts(0, 0, 3)
    /\ cls_out.res.error_type = "missing_content"

\* C7: coverage of exactly 0.70 is not a miss: pool coverage of exactly 0.70 is
\* never labelled missed_top_ranked_documents and context coverage of exactly
\* 0.70 is never labelled not_in_context.
C7_ThresholdStrict ==
    (cls_out.called /\ cls_in.era.has_hits /\ cls_in.era.hit_counts.total_evidence > 0) =>
        LET hc == cls_in.era.hit_counts IN
        /\ (10 * (hc.context_hits + hc.backup_hits) = 7 * hc.total_evidence)
              => cls_out.res.error_type # "missed_top_ranked_documents"
        /\ (10 * hc.context_hits = 7 * hc.total_evidence)
              => cls_out.res.error_type # "not_in_context"

\* an incorrect, well-formed answer with 7 of 10 evidence documents in context
\* and none in backup passes both thresholds and reaches the classifier call
C7_Witness ==
    /\ cls_out.called /\ ~ cls_in.is_correct /\ ~ TruthInsufficient
    /\ cls_in.raw = R_FULL
    /\ cls_in.era.has_hits /\ cls_in.era.hit_counts = HitCounts(7, 0, 10)
    /\ cls_out.res.status = "return" /\ cls_out.res.llm_calls = 1

\* C8: an incorrect answer on which rules 2-4 do not fire and whose evidence
\* documents are all in context is labelled not_extracted without a classifier call.
C8_NotExtracted ==
    (/\ cls_out.called /\ ~ cls_in.is_correct
     /\ ~ (TruthInsufficient /\ ~ ResponseInsufficient)
     /\ DecodesToMapping(cls_in.raw) /\ HasBothKeys(cls_in.raw)
     /\ cls_in.era.has_hits
     /\ cls_in.era.hit_counts.total_evidence > 0
     /\ cls_in.era.hit_counts.context_hits = cls_in.era.hit_counts.total_evidence) =>
        /\ cls_out.res.status = "return"
        /\ cls_out.res.error_type = "not_extracted"
        /\ cls_out.res.llm_calls = 0

\* two evidence documents, both in context, none in backup, answer wrong
C8_Witness ==
    /\ cls_out.called /\ ~ cls_in.is_correct /\ ~ TruthInsufficient
    /\ cls_in.raw = R_FULL
    /\ cls_in.era.has_hits /\ cls_in.era.hit_counts = HitCounts(2, 0, 2)
    /\ cls_out.res.error_type = "not_extracted"

\* C9: a raw output that no rung decodes to a mapping is parsed to the raw text
\* itself and, when judged incorrect without a missing-content mismatch, is
\* labelled wrong_format whatever the hit counts are.
C9_UndecodableIsWrongFormat ==
    (/\ cls_out.called /\ ~ cls_in.is_correct
     /\ ~ (TruthInsufficient /\ ~ ResponseInsufficient)
     /\ ~ DecodesToMapping(cls_in.raw)) =>
        /\ parse_rag_response(cls_in.raw) = Parsed(cls_in.raw.text, << >>)
        /\ cls_out.res.status = "return"
        /\ cls_out.res.error_type = "wrong_format"

\* an incorrect answer on which the missing-content, wrong-format and
\* structural-incomplete rules do not fire
PastFormatRules ==
    /\ cls_out.called /\ ~ cls_in.is_correct
    /\ ~ (TruthInsufficient /\ ~ ResponseInsufficient)
    /\ DecodesToMapping(cls_in.raw) /\ HasBothKeys(cls_in.raw)

\* C24: past the format rules and with total_evidence > 0, the label is
\* missed_top_ranked_documents exactly when pool coverage is below 0.70 and
\* not_in_context exactly when pool coverage is at least 0.70 and context
\* coverage is below 0.70
C24_ThresholdLabels ==
    (/\ PastFormatRules
     /\ cls_in.era.has_hits /\ cls_in.era.hit_counts.total_evidence > 0) =>
        LET hc       == cls_in.era.hit_counts
            pool_low == 10 * (hc.context_hits + hc.backup_hits) < 7 * hc.total_evidence
            ctx_low  == 10 * hc.context_hits < 7 * hc.total_evidence
        IN /\ cls_out.res.status = "return"
           /\ (cls_out.res.error_type = "missed_top_ranked_documents") <=> pool_low
           /\ (cls_out.res.error_type = "not_in_context") <=> (~ pool_low /\ ctx_low)

\* three of ten evidence documents in context and four in backup: the pool
\* covers exactly 0.70, the context 0.30
C24_Witness ==
    /\ PastFormatRules /\ cls_in.raw = R_FULL
    /\ cls_in.era.has_hits /\ cls_in.era.hit_counts = HitCounts(3, 4, 10)
    /\ cls_out.res.error_type = "not_in_context" /\ cls_out.res.llm_calls = 0

\* one of the retrieval rules 5-7 fires on the hit counts
RetrievalRuleFires ==
    LET hc == cls_in.era.hit_counts IN
    /\ cls_in.era.has_hits /\ hc.total_evidence > 0
    /\ \/ 10 * (hc.context_hits + hc.backup_hits) < 7 * hc.total_evidence
       \/ 10 * hc.context_hits < 7 * hc.total_evidence
       \/ hc.context_hits = hc.total_evidence

\* the token a reply stands for once trimmed, lower-cased and freed of its tag
TokenOf(reply) ==
    CASE reply \in {"incomplete", "Incomplete (FP7)"} -> "incomplete"
      [] reply = " INCORRECT_SPECIFICITY "            -> "incorrect_specificity"
      [] OTHER                                        -> "unknown"

\* C25: the external classifier is called only when rules 1-7 have all failed
\* to fire and at most once; its reply, trimmed, lower-cased and without
\* parenthetical tag, is the label only if it equals incorrect_specificity or
\* incomplete, and a failed call or any other reply yields unknown
C25_ClassifierTiebreak ==
    cls_out.called =>
        /\ cls_out.res.llm_calls <= 1
        /\ (cls_out.res.llm_calls = 1) <=> (PastFormatRules /\ ~ RetrievalRuleFires)
        /\ (cls_out.res.llm_calls = 1) =>
              /\ cls_out.res.status = "return"
              /\ cls_out.res.error_type = TokenOf(cls_in.llm)
        /\ (cls_out.res.status = "return" /\ cls_out.res.llm_calls = 0) =>
              cls_out.res.error_type \notin {"incorrect_specificity", "unknown"}

\* the classifier is reached with 8 of 10 evidence documents in context and
\* answers with a tagged, capitalised token
C25_Witness ==
    /\ PastFormatRules /\ cls_in.raw = R_FULL
    /\ cls_in.era.has_hits /\ cls_in.era.hit_counts = HitCounts(8, 1, 10)
    /\ cls_in.llm = "Incomplete (FP7)"
    /\ cls_out.res.llm_calls = 1 /\ cls_out.res.error_type = "incomplete"

\* C26: an incorrect answer on which missing_content does not fire and whose
\* raw output decodes to a mapping without the final_answer key or without the
\* supporting_sentences key is labelled incomplete before any retrieval rule
\* and without a classifier call, whatever the hit counts are
C26_StructuralIncompleteFirst ==
    (/\ cls_out.called /\ ~ cls_in.is_correct
     /\ ~ (TruthInsufficient /\ ~ ResponseInsufficient)
     /\ DecodesToMapping(cls_in.raw) /\ ~ HasBothKeys(cls_in.raw)) =>
        /\ cls_out.res.status = "return"
        /\ cls_out.res.error_type = "incomplete"
        /\ cls_out.res.llm_calls = 0

\* a mapping with final_answer only, judged wrong, with none of three evidence
\* documents retrieved
C26_Witness ==
    /\ cls_out.called /\ ~ cls_in.is_correct /\ ~ TruthInsufficient
    /\ cls_in.raw = R_ONLYFA
    /\ cls_in.era.has_hits /\ cls_in.era.hit_counts = HitCounts(0, 0, 3)
    /\ cls_out.res.error_type = "incomplete"

----------------------------------------------------------------------------
(* Properties of the retrieval stage *)

Candidates ==
    LET docs == [j \in DOMAIN rag_in.svc.pool |->
                    [id |-> rag_in.svc.pool[j], score |-> "cosine"]]
    IN IF rag_in.cfg.rerank_model
       THEN rerank_documents(docs, TRUE, rag_in.svc.rerank) ELSE
            [status |-> "return", docs |-> docs]

\* C11: whenever the stage returns on a candidate list (the pool, or the list
\* the reranker returned), context is the first k entries of that list in rank
\* order and backup is the rest: len(context) = min(k, size),
\* len(context) + len(backup) = size, and a short list is not padded.
C11_ExactPartition ==
    (rag_out.called /\ rag_out.res.status = "return" /\ Candidates.status = "return") =>
        LET cand == Candidates.docs
            ctx  == rag_out.res.retrieved_docs
            bak  == rag_out.res.backup_docs
        IN /\ Len(ctx) = Min(rag_in.cfg.k, Len(cand))
           /\ Len(ctx) + Len(bak) = Len(cand)
           /\ \A j \in DOMAIN ctx : ctx[j] = cand[j]
           /\ \A j \in DOMAIN bak : bak[j] = cand[Len(ctx) + j]

\* a reranked list of two candidates under k = 3: a short context, no backup
C11_Witness ==
    /\ rag_out.called /\ rag_in.cfg.rerank_model /\ rag_in.cfg.k = 3
    /\ Len(rag_in.svc.pool) = 2 /\ rag_in.svc.rerank = RerankOrder(<<2, 1>>)
    /\ Len(rag_out.res.retrieved_docs) = 2 /\ rag_out.res.backup_docs = << >>
    /\ rag_out.res.retrieved_docs[1].id = rag_in.svc.pool[2]

\* a rerank model is configured, the index returned candidates and the call
\* of the reranker fails: the service call raises or names a missing document
RerankerFails ==
    /\ rag_in.cfg.rerank_model /\ rag_in.svc.embed_ok /\ rag_in.svc.pool # << >>
    /\ \/ ~ rag_in.svc.rerank.ok
       \/ \E j \in DOMAIN rag_in.svc.rerank.order :
             rag_in.svc.rerank.order[j] \notin DOMAIN rag_in.svc.pool

\* what query_rag_with_details hands to the driver for this call
DriverView == query_rag_with_details(rag_in.cfg, rag_in.svc)

\* C30: when a rerank model is configured and the reranker call fails,
\* rag_workflow makes no generation call and returns empty context, empty
\* backup and an empty response; the driver sees an empty raw response, whereas
\* the empty-pool sentinel and a generated text reach it as non-empty raw
\* responses; with a rerank model configured the generator only ever receives
\* documents in the order the reranker returned
C30_RerankFailureSignalled ==
    rag_out.called =>
        /\ RerankerFails =>
              /\ rag_out.res = RagResult("return", << >>, << >>, R_EMPTY, 1, 0)
              /\ DriverView.raw_response.text = << >> /\ DriverView.answer = << >>
        /\ (rag_in.svc.embed_ok /\ rag_in.svc.pool = << >>) =>
              /\ rag_out.res.response = R_NODOCS
              /\ DriverView.raw_response.text # << >>
        /\ (rag_out.res.llm_calls = 1 /\ rag_in.svc.gen_ok /\ rag_in.svc.gen.text # << >>) =>
              /\ ~ RerankerFails
              /\ DriverView.raw_response = rag_in.svc.gen
              /\ DriverView.raw_response.text # << >>
        /\ (rag_out.res.llm_calls = 1 /\ rag_in.cfg.rerank_model) =>
              /\ rag_out.res.rerank_calls = 1
              /\ \A j \in DOMAIN rag_out.res.retrieved_docs :
                    rag_out.res.retrieved_docs[j].score = "rerank"
              /\ \A j \in DOMAIN rag_out.res.backup_docs :
                    rag_out.res.backup_docs[j].score = "rerank"

\* three candidates, a rerank model, a failing rerank call and a generator
\* that would have answered: no generation call, empty response
C30_Witness ==
    /\ rag_out.called /\ RerankerFails /\ ~ rag_in.svc.rerank.ok
    /\ Len(rag_in.svc.pool) = 3 /\ rag_in.svc.gen_ok /\ rag_in.svc.gen = R_FULL
    /\ rag_out.res.llm_calls = 0 /\ rag_out.res.rerank_calls = 1
    /\ rag_out.res.response = R_EMPTY

----------------------------------------------------------------------------
(* The batch driver: requests, the two loops, checkpoints and process kills *)

AtRest == pc \in {"idle", "returned", "cached", "error"}

Question(i) == ScenarioOf(profile, offset, i)

InitBatch ==
    /\ mode \in {"sequential", "concurrent"}
    /\ profile \in Profiles
    /\ offset \in 0..(Len(ProfileScenarios(profile)) - 1)
    /\ num_q \in {0, IF mode = "sequential" THEN MaxSequentialQ ELSE MaxConcurrentQ}
    /\ outcomes = [i \in 1..num_q |-> process_rag_question(i, BatchCfg, Question(i))]
    /\ pc = "idle" /\ results = << >> /\ pending = {} /\ loop_i = 0
    /\ processed_count = 0 /\ cache_file = NoFile /\ metrics = NoMetrics
    /\ entry = << >> /\ touched = [i \in 1..num_q |-> 0]
    /\ interrupted = FALSE /\ saves = 0
    /\ ClsIdle /\ RagIdle /\ LimIdle /\ VsIdle /\ EvIdle /\ PrsIdle /\ EraIdle /\ XpIdle /\ FprIdle /\ WpIdle /\ ShIdle

\* evaluate_configuration answers from a complete cache record
ReturnFromCache ==
    /\ AtRest /\ cache_complete(cache_file, num_q)
    /\ pc' = "cached"
    /\ results' = cache_file.results /\ metrics' = cache_file.metrics
    /\ entry' = cache_file.results /\ touched' = [i \in 1..num_q |-> 0]
    /\ pending' = {} /\ loop_i' = 0 /\ processed_count' = 0 /\ saves' = 0
    /\ UNCHANGED <<mode, offset, profile, outcomes, num_q, cache_file, interrupted,
                   batch_others>>

\* evaluate_configuration up to the first loop iteration: load the cache record
\* or create a new one, enter batch_evaluate_configuration and the loop prologue
StartEvaluation ==
    /\ AtRest /\ ~ cache_complete(cache_file, num_q)
    /\ LET start == IF cache_file.exists THEN cache_file.results
                    ELSE [i \in 1..num_q |-> Placeholder]
       IN /\ results' = start
          /\ entry' = start
          /\ pending' = IF mode = "concurrent" THEN submitted(start, num_q) ELSE {}
    /\ metrics' = cache_file.metrics
    /\ loop_i' = IF mode = "sequential" THEN 1 ELSE 0
    /\ processed_count' = 0 /\ saves' = 0
    /\ touched' = [i \in 1..num_q |-> 0]
    /\ pc' = "loop"
    /\ UNCHANGED <<mode, offset, profile, outcomes, num_q, cache_file, interrupted,
                   batch_others>>

\* the sequential loop on a slot that is already filled: continue
SeqSkip ==
    /\ pc = "loop" /\ mode = "sequential" /\ loop_i <= num_q
    /\ ~ needs_processing(results, loop_i)
    /\ loop_i' = loop_i + 1
    /\ UNCHANGED <<mode, offset, profile, outcomes, num_q, pc, results, pending,
                   processed_count, cache_file, metrics, entry, touched,
                   interrupted, saves, batch_others>>

\* one iteration of the sequential loop on a placeholder slot
SeqProcess ==
    /\ pc = "loop" /\ mode = "sequential" /\ loop_i <= num_q
    /\ needs_processing(results, loop_i)
    /\ LET o == outcomes[loop_i] IN
       /\ o.status # "hang"
       /\ touched' = [touched EXCEPT ![loop_i] = @ + 1]
       /\ IF o.status = "raise"
          THEN /\ pc' = "error"               \* propagates to the request handler
               /\ UNCHANGED <<results, processed_count, cache_file, saves, loop_i>>
          ELSE /\ pc' = pc
               /\ results' = IF accepts(mode, o.result)
                             THEN [results EXCEPT ![loop_i] = o.result] ELSE results
               /\ processed_count' = processed_count + 1
               /\ loop_i' = loop_i + 1
               /\ IF (processed_count + 1) % test_size = 0
                  THEN /\ cache_file' = save_individual_cache(results', metrics)
                       /\ saves' = saves + 1
                  ELSE UNCHANGED <<cache_file, saves>>
    /\ UNCHANGED <<mode, offset, profile, outcomes, num_q, pending, metrics, entry,
                   interrupted, batch_others>>

\* a result stored at the position of its completion
slot_by_completion(i, count) == count + 1

\* index = future_to_index[future]: the slot of the question the future was
\* submitted for, whatever number of futures completed before it
slot_of(i, count) == i

\* the future of question i completes and as_completed yields it: the body of
\* the worker-pool loop with its except and finally branches
HandleCompleted(i) ==
    /\ pc = "loop" /\ mode = "concurrent" /\ i \in pending
    /\ LET o == outcomes[i] IN
       /\ o.status # "hang"
       /\ results' = IF o.status = "return" /\ accepts(mode, o.result)
                     THEN [results EXCEPT ![slot_of(i, processed_count)] = o.result]
                     ELSE results
       /\ processed_count' = processed_count + 1
       /\ IF (processed_count + 1) % concurrent_interval = 0
          THEN /\ cache_file' = save_individual_cache(results', metrics)
               /\ saves' = saves + 1
          ELSE UNCHANGED <<cache_file, saves>>
    /\ pending' = pending \ {i}
    /\ touched' = [touched EXCEPT ![i] = @ + 1]
    /\ UNCHANGED <<mode, offset, profile, outcomes, num_q, pc, loop_i, metrics, entry,
                   interrupted, batch_others>>

\* a loop that may end before every question has been handled
LoopDone_anytime == TRUE

LoopDone == IF mode = "sequential" THEN loop_i > num_q ELSE pending = {}

\* the loop has ended: the accuracy of the run, the roll-up of
\* batch_evaluate_configuration, the cache item update and save_callback()
BatchFinish ==
    /\ pc = "loop" /\ LoopDone
    /\ metrics' = aggregate(results, num_q)
    /\ cache_file' = save_individual_cache(results, metrics')
    /\ saves' = saves + 1
    /\ pc' = "aggregated"
    /\ UNCHANGED <<mode, offset, profile, outcomes, num_q, results, pending, loop_i,
                   processed_count, entry, touched, interrupted, batch_others>>

\* evaluate_configuration after the batch: cached_result.update(final_result),
\* the last save and the response
ServerFinish ==
    /\ pc = "aggregated"
    /\ metrics' = [metrics EXCEPT !.final = TRUE]
    /\ cache_file' = save_individual_cache(results, metrics')
    /\ saves' = saves + 1
    /\ pc' = "returned"
    /\ UNCHANGED <<mode, offset, profile, outcomes, num_q, results, pending, loop_i,
                   processed_count, entry, touched, interrupted, batch_others>>

\* the server process is killed while a request is running: memory is lost,
\* the cache file stays
Interrupt ==
    /\ pc \in {"loop", "aggregated"}
    /\ pc' = "idle" /\ interrupted' = TRUE
    /\ results' = << >> /\ pending' = {} /\ loop_i' = 0 /\ processed_count' = 0
    /\ metrics' = NoMetrics /\ entry' = << >> /\ saves' = 0
    /\ touched' = [i \in 1..num_q |-> 0]
    /\ UNCHANGED <<mode, offset, profile, outcomes, num_q, cache_file, batch_others>>

NextBatch ==
    \/ ReturnFromCache
    \/ StartEvaluation
    \/ SeqSkip
    \/ SeqProcess
    \/ \E i \in 1..num_q : HandleCompleted(i)
    \/ BatchFinish
    \/ ServerFinish
    \/ Interrupt

SpecBatch == InitBatch /\ [][NextBatch]_vars

----------------------------------------------------------------------------
(* Properties of the batch driver *)

NonEmpty(r) == r.raw_response # << >> /\ r.response # << >>

\* the array one uninterrupted run over all questions produces
one_pass ==
    [i \in 1..num_q |->
        LET o == outcomes[i]
        IN IF o.status = "return" /\ accepts(mode, o.result)
           THEN o.result ELSE Placeholder]

\* C1: in both modes a slot holds a result only if the raw response and the
\* parsed answer of that result are both non-empty; a question without a usable
\* response keeps its placeholder and is never recorded as a wrong answer
C1_StoredOnlyIfNonEmpty ==
    \A i \in DOMAIN results : results[i].filled => NonEmpty(results[i])

\* C2: a batch that was interrupted after some questions were checkpointed and
\* then re-run from the persisted cache ends, in memory and on disk, with the
\* results array of one uninterrupted run over all questions
C2_ResumeEqualsOnePass ==
    (pc = "returned" /\ interrupted) =>
        (results = one_pass /\ cache_file.results = one_pass)

\* a re-run that started from checkpointed results, filled further slots and returned
C2_Witness ==
    /\ pc = "returned" /\ interrupted
    /\ \E i \in DOMAIN entry : entry[i].filled
    /\ \E j \in DOMAIN entry : ~ entry[j].filled /\ results[j].filled

\* C3: a filled slot is never processed again and never changes, in memory,
\* on disk and when a later run loads it; within one run every question is
\* processed at most once
C3_FilledSlotsFinal ==
    [][\A i \in 1..num_q :
        /\ (pc = "loop" /\ pc' # "idle" /\ results[i].filled)
              => (results'[i] = results[i] /\ touched'[i] = touched[i])
        /\ (cache_file.exists /\ cache_file.results[i].filled)
              => (cache_file'.results[i] = cache_file.results[i])
        /\ (pc' = "loop" /\ cache_file.exists /\ cache_file.results[i].filled)
              => (results'[i] = cache_file.results[i])
        /\ touched'[i] <= 1]_vars

\* a run that resumed from filled slots and has processed one of the others
C3_Witness ==
    /\ pc = "loop" /\ interrupted
    /\ \E i \in DOMAIN entry : entry[i].filled
    /\ \E j \in DOMAIN entry : ~ entry[j].filled /\ touched[j] = 1

\* C4: no request ends in an error because processing one question raised:
\* the remaining questions are processed and the batch returns its metrics
C4_FailureNeverAborts == pc # "error"

\* the persisted array has one slot per question and every slot is filled
AllSlotsFilled ==
    /\ cache_file.exists
    /\ Len(cache_file.results) = num_q
    /\ \A i \in 1..num_q : cache_file.results[i].filled

\* C22: a request that finds every slot of the persisted array filled processes
\* no question, leaves the persisted record unchanged and answers from the
\* cache; a request that finds a placeholder resumes from the persisted array,
\* and a run processes only slots that were placeholders when it started
C22_ShortCircuitOrResume ==
    [][/\ (AtRest /\ AllSlotsFilled)
            => /\ pc' = "cached"
               /\ cache_file' = cache_file
               /\ metrics' = cache_file.metrics
               /\ results' = cache_file.results
               /\ \A i \in 1..num_q : touched'[i] = 0
       /\ (AtRest /\ cache_file.exists /\ ~ AllSlotsFilled)
            => /\ pc' = "loop"
               /\ results' = cache_file.results
               /\ cache_file' = cache_file
       /\ \A i \in 1..num_q :
             touched'[i] > touched[i] => (i \in DOMAIN entry /\ ~ entry[i].filled)]_vars

\* a request answered from a complete record of a non-empty dataset that an
\* earlier, interrupted and resumed evaluation left behind
C22_Witness ==
    /\ pc = "cached" /\ num_q > 0 /\ interrupted
    /\ AllSlotsFilled /\ results = cache_file.results

\* the questions for which the index returns no candidates
EmptyPool(i) == Question(i).embed_ok /\ Question(i).pool = << >>

\* C29: for a question whose pool is empty rag_workflow makes no rerank and no
\* generation call and returns empty context and backup with the fixed
\* no-documents response; the driver stores the result in the question's slot
\* when it handles the question, and neither the same run nor a later run
\* that loads the slot processes the question again
C29_EmptyPoolTerminal ==
    [][\A i \in 1..num_q : EmptyPool(i) =>
         /\ rag_workflow(BatchCfg, Question(i))
               = RagResult("return", << >>, << >>, R_NODOCS, 0, 0)
         /\ (touched'[i] > touched[i])
               => /\ ~ results[i].filled
                  /\ results'[i].filled
                  /\ results'[i].raw_response = R_NODOCS.text
                  /\ results'[i].response # << >>
         /\ (i \in DOMAIN results /\ results[i].filled /\ pc' # "idle")
               => (results'[i] = results[i] /\ touched'[i] <= touched[i])
         /\ (AtRest /\ cache_file.exists /\ cache_file.results[i].filled)
               => (results'[i] = cache_file.results[i] /\ touched'[i] = 0)]_vars

\* a resumed run that loaded the stored no-documents result of a question and
\* processes another question without touching that one
C29_Witness ==
    /\ pc = "loop" /\ interrupted
    /\ \E i \in 1..num_q :
          /\ EmptyPool(i) /\ entry[i].filled /\ results[i] = entry[i]
          /\ results[i].raw_response = R_NODOCS.text /\ touched[i] = 0
    /\ \E j \in 1..num_q : touched[j] = 1

OtherMode == IF mode = "sequential" THEN "concurrent" ELSE "sequential"

\* the array the loop of mode md leaves when it starts from the array start:
\* filled slots are kept; the sequential loop stores every returned result and
\* stops at the first question that raises, the worker-pool loop stores the
\* results it accepts and goes on after a raise
loop_result(md, start) ==
    [i \in 1..num_q |->
        IF start[i].filled THEN start[i]
        ELSE IF /\ outcomes[i].status = "return"
                /\ accepts(md, outcomes[i].result)
                /\ md = "sequential" =>
                      \A j \in 1..i : start[j].filled \/ outcomes[j].status = "return"
             THEN outcomes[i].result
             ELSE Placeholder]

\* C34: for the same dataset, the same initial array and the same outcomes per
\* question, the array and the aggregate metrics a run leaves are those the
\* other execution mode leaves
C34_ModesAgree ==
    (pc = "returned") =>
        /\ results = loop_result(mode, entry)
        /\ results = loop_result(OtherMode, entry)
        /\ aggregate(results, num_q) = aggregate(loop_result(OtherMode, entry), num_q)

\* C35: a request answered from the cache returns the aggregate metrics of the
\* persisted array, as the run that filled the last slot computed them, also
\* when that run was interrupted after one of its checkpoint writes
C35_ShortCircuitHasMetrics ==
    (pc = "cached") =>
        /\ metrics.final
        /\ metrics = [aggregate(cache_file.results, num_q) EXCEPT !.final = TRUE]

\* Repeated complete runs of one configuration whose service calls all
\* succeed: the generator answers every question, for one of them with a
\* mapping whose final_answer is empty
\* the record an earlier run left at its first checkpoint before the server
\* was stopped
first_checkpoint(md, out) ==
    LET every == IF md = "sequential" THEN test_size ELSE concurrent_interval IN
    save_individual_cache(
        [i \in DOMAIN out |-> IF i <= every /\ accepts(md, out[i].result)
                               THEN out[i].result ELSE Placeholder],
        NoMetrics)

InitBatchLive ==
    /\ mode \in {"sequential", "concurrent"}
    /\ profile = "quiet"
    /\ offset \in 0..(Len(ProfileScenarios(profile)) - 1)
    /\ num_q = (IF mode = "sequential" THEN MaxSequentialQ ELSE MaxConcurrentQ)
    /\ outcomes = [i \in 1..num_q |-> process_rag_question(i, BatchCfg, Question(i))]
    /\ pc = "idle" /\ results = << >> /\ pending = {} /\ loop_i = 0
    /\ processed_count = 0 /\ metrics = NoMetrics
    /\ cache_file \in {NoFile, first_checkpoint(mode, outcomes)}
    /\ entry = << >> /\ touched = [i \in 1..num_q |-> 0]
    /\ interrupted = FALSE /\ saves = 0
    /\ ClsIdle /\ RagIdle /\ LimIdle /\ VsIdle /\ EvIdle /\ PrsIdle /\ EraIdle /\ XpIdle /\ FprIdle /\ WpIdle /\ ShIdle

NextBatchLive ==
    \/ ReturnFromCache
    \/ StartEvaluation
    \/ SeqSkip
    \/ SeqProcess
    \/ \E i \in 1..num_q : HandleCompleted(i)
    \/ BatchFinish
    \/ ServerFinish

\* requests keep arriving and a run that can take a step takes one

\* weak fairness of BatchFinish, with the condition under which it can take
\* a step written out: the loop has ended
BatchFinishFair ==
    []<>(~ (pc = "loop" /\ LoopDone)) \/ []<><<BatchFinish>>_vars

SpecBatchLive ==
    /\ InitBatchLive /\ [][NextBatchLive]_vars
    /\ WF_vars(ReturnFromCache) /\ WF_vars(StartEvaluation)
    /\ WF_vars(SeqSkip) /\ WF_vars(SeqProcess)
    /\ \A i \in 1..MaxConcurrentQ : WF_vars(HandleCompleted(i))
    /\ BatchFinishFair /\ WF_vars(ServerFinish)

\* every external service call of the dataset succeeds
ServicesSucceed ==
    \A i \in 1..num_q :
        /\ Question(i).embed_ok /\ Question(i).gen_ok /\ Question(i).rerank.ok
        /\ Question(i).oracle # "FAIL"
        /\ \A j \in DOMAIN Question(i).evidence_list : Question(i).evidence_list[j].lookup_ok

\* C36: if every external service call succeeds, repeated runs eventually
\* leave a persisted array in which every slot is filled
C36_EventuallyAllFilled == ServicesSucceed => <>AllSlotsFilled

\* C12: the persistence callback runs after every 10th completed question of
\* a worker-pool run and after every 20th processed question of a sequential
\* run, at no other moment of the loop, and once more when the last question has
\* been handled and the aggregate metrics are in the cache item; each call
\* writes the results array and the metrics as they are at that moment.
C12_CheckpointCadence ==
    [][LET every == IF mode = "sequential" THEN 20 ELSE 10 IN
       /\ (pc = "loop" /\ pc' = "loop" /\ processed_count' # processed_count) =>
             /\ processed_count' = processed_count + 1
             /\ IF processed_count' % every = 0
                THEN /\ saves' = saves + 1
                     /\ cache_file' = save_individual_cache(results', metrics')
                ELSE saves' = saves /\ cache_file' = cache_file
       /\ (pc = "loop" /\ pc' = "aggregated") =>
             /\ IF mode = "sequential" THEN loop_i > num_q ELSE pending = {}
             /\ metrics'.exists
             /\ saves' = saves + 1 /\ saves' = (processed_count \div every) + 1
             /\ cache_file' = save_individual_cache(results', metrics')]_vars

\* a run that checkpointed once inside the loop and once more at its end
C12_Witness ==
    /\ pc = "aggregated" /\ saves = 2 /\ processed_count > 10
    /\ cache_file.metrics.exists /\ cache_file.results = results

\* C13: in worker-pool mode, in whatever order the futures complete, the array
\* keeps one slot per dataset question, every filled slot i holds the record of
\* question i, and no slot is written by two completions of one run.
C13_IndexByOrigin ==
    (mode = "concurrent" /\ pc \in {"loop", "aggregated", "returned"}) =>
        /\ Len(results) = num_q
        /\ \A i \in 1..num_q :
              /\ results[i].filled =>
                    (results[i].query = i /\ results[i] = outcomes[i].result)
              /\ touched[i] <= 1
              /\ (touched[i] = 0 /\ ~ entry[i].filled) => ~ results[i].filled

\* a later question completed and was stored while an earlier one is in flight
C13_Witness ==
    /\ mode = "concurrent" /\ pc = "loop"
    /\ \E i, j \in 1..num_q :
          i < j /\ i \in pending /\ touched[j] = 1 /\ results[j].filled

\* the run has computed its metrics and they are still in memory
Reported == pc \in {"aggregated", "returned"}

FilledCorrect == {i \in 1..Len(results) : results[i].filled /\ results[i].correct}

\* C17 as stated: the reported accuracy is the fraction correct_count/total,
\* total being the number of dataset questions.
C17_AccuracyIsFraction ==
    Reported => metrics.accuracy.num * num_q = Cardinality(FilledCorrect) * metrics.accuracy.den

\* C17 amended: the reported accuracy is the percentage 100 * correct_count/total
\* (0 for an empty dataset), in the sequential loop, in the worker pool and on
\* the path that finds nothing left to process.
C17_AccuracyIsPercentage ==
    Reported =>
        /\ metrics.correct = Cardinality(FilledCorrect) /\ metrics.total = num_q
        /\ IF num_q = 0 THEN metrics.accuracy.num = 0
           ELSE metrics.accuracy.num * num_q
                    = 100 * Cardinality(FilledCorrect) * metrics.accuracy.den

C17_Witness ==
    /\ pc = "aggregated" /\ mode = "concurrent"
    /\ FilledCorrect # {}
    /\ \E i \in 1..Len(results) : ~ results[i].filled
    /\ \E i \in 1..Len(results) : results[i].filled /\ ~ results[i].correct

\* the questions whose stored result matched at least one evidence document
\* against the index
RetrievalEligible ==
    {i \in 1..Len(results) : results[i].filled
                             /\ results[i].analysis.hit_counts.total_evidence > 0}

RECURSIVE SumOverSet(_, _)
SumOverSet(S, field) ==
    IF S = {} THEN 0
    ELSE LET i == CHOOSE x \in S : TRUE
         IN results[i].analysis.hit_counts[field] + SumOverSet(S \ {i}, field)

RECURSIVE ScoreOverSet(_, _)
ScoreOverSet(S, which) ==
    IF S = {} THEN Zero
    ELSE LET i == CHOOSE x \in S : TRUE
             sc == IF which = "mrr" THEN mrr_score(results[i].analysis)
                   ELSE ap(results[i].analysis)
         IN RatAdd(sc, ScoreOverSet(S \ {i}, which))

\* C18: recall is the sum of context hits over the sum of evidence counts of
\* the retrieval-eligible questions (filled, total_evidence > 0), MRR and MAP
\* are the means of reciprocal rank and AP over exactly those questions, and
\* all three are 0 when no question is eligible.
C18_RetrievalMetrics ==
    Reported =>
        LET E == RetrievalEligible
            n == Cardinality(E)
        IN /\ metrics.eligible = n
           /\ metrics.rag_recall = RatOver(Rat(SumOverSet(E, "context_hits"), 1),
                                           SumOverSet(E, "total_evidence"))
           /\ metrics.rag_mrr = RatOver(ScoreOverSet(E, "mrr"), n)
           /\ metrics.rag_map = RatOver(ScoreOverSet(E, "map"), n)
           /\ n = 0 => /\ metrics.rag_recall = Zero /\ metrics.rag_mrr = Zero
                       /\ metrics.rag_map = Zero

C18_Witness ==
    /\ Reported /\ Cardinality(RetrievalEligible) >= 2
    /\ metrics.rag_mrr.num > 0 /\ metrics.rag_mrr.den > 1
    /\ metrics.rag_map.num > 0 /\ metrics.rag_recall.num > 0
    /\ \E i \in 1..Len(results) :
           /\ results[i].filled /\ results[i].analysis.has_hits
           /\ results[i].analysis.hit_counts.total_evidence = 0

----------------------------------------------------------------------------
(* rate_limiter.SiliconFlowRateLimiter: threads calling wait_if_needed.    *)
(* The clock counts seconds; waiting times are kept in tenths of a second, *)
(* so that the 0.1 s buffer of the code is exact.                          *)

MaxTime  == 62          \* the clock is observed up to this second
MaxCalls == 3           \* wait_if_needed calls over the life of the limiter
MaxRpm   == 2           \* rpm_limit ranges over 1..MaxRpm
MaxTpm   == 10          \* tpm_limit of the limiter under observation

window_seconds == 60

Threads   == {1, 2}
ApiKeys   == {"key_a", "key_b"}
Estimates == {1, 9}           \* results of _estimate_tokens
\* the seconds at which the clock is observed
Instants  == {0, 30, 59, 60, 61} \cup {MaxTime}

Idle == [pc |-> "idle", key |-> "key_a", est |-> 0, wake |-> 0]

MinOf(S) == CHOOSE x \in S : \A y \in S : x <= y
Max(a, b) == IF a > b THEN a ELSE b
CeilDiv(a, b) == (a + b - 1) \div b

Stamps(entries) == {entries[j].ts : j \in DOMAIN entries}
Tokens(entries) == SumSeq([j \in DOMAIN entries |-> entries[j].tokens])

\* _clean_old_entries on one list: keep what is younger than one minute
clean_timestamps(tss, t) ==
    LET Young(ts) == ts > t - window_seconds IN SelectSeq(tss, Young)

clean_token_counts(tcs, t) ==
    LET Young(e) == e.ts > t - window_seconds IN SelectSeq(tcs, Young)

\* 60 - (current_time - oldest) + 0.1, in tenths of a second
until_expiry(current_time, oldest) ==
    10 * window_seconds - 10 * (current_time - oldest) + 1

rpm_wait_time(tss, current_time) ==
    IF Len(tss) >= rpm_limit
    THEN until_expiry(current_time, MinOf({tss[j] : j \in DOMAIN tss}))
    ELSE 0

tpm_wait_time(tcs, estimated_tokens, current_time) ==
    LET recent_tokens == Tokens(tcs) IN
    IF recent_tokens + estimated_tokens > tpm_limit
    THEN IF tcs # << >>
         THEN LET oldest == MinOf(Stamps(tcs))
                  first  == until_expiry(current_time, oldest)
                  Released(e) == 10 * e.ts <= 10 * oldest + first
                  tokens_to_release == Tokens(SelectSeq(tcs, Released))
              IN IF first > 0 /\ recent_tokens - tokens_to_release + estimated_tokens
                                    > tpm_limit
                 THEN Max(first, CeilDiv(600 * (recent_tokens + estimated_tokens
                                                   - tpm_limit), tpm_limit) + 1)
                 ELSE first
         ELSE CeilDiv(600 * estimated_tokens, tpm_limit) + 1
    ELSE 0

InitLimiter ==
    /\ now = 0
    /\ rpm_limit \in 1..MaxRpm /\ tpm_limit = MaxTpm
    /\ request_timestamps = [k \in ApiKeys |-> << >>]
    /\ token_counts = [k \in ApiKeys |-> << >>]
    /\ lock = 0
    /\ workers = [w \in Threads |-> Idle]
    /\ ledger = << >>
    /\ ClsIdle /\ RagIdle /\ BatchIdle /\ VsIdle /\ EvIdle /\ PrsIdle /\ EraIdle /\ XpIdle /\ FprIdle /\ WpIdle /\ ShIdle

Started == Len(ledger) + Cardinality({w \in Threads : workers[w].pc # "idle"})

\* wait_if_needed(api_key, texts): estimate the tokens, enter _check_and_wait
CallWait(w, key, est) ==
    /\ workers[w].pc = "idle" /\ Started < MaxCalls
    /\ workers' = [workers EXCEPT ![w] = [pc |-> "enter", key |-> key, est |-> est,
                                          wake |-> 0]]
    /\ UNCHANGED <<now, rpm_limit, tpm_limit, request_timestamps, token_counts,
                   lock, ledger, lim_others>>

\* with self.lock: and _clean_old_entries, which reads the clock
AcquireAndClean(w) ==
    /\ workers[w].pc = "enter" /\ lock = 0
    /\ lock' = w
    /\ request_timestamps' =
          [request_timestamps EXCEPT ![workers[w].key] = clean_timestamps(@, now)]
    /\ token_counts' =
          [token_counts EXCEPT ![workers[w].key] = clean_token_counts(@, now)]
    /\ workers' = [workers EXCEPT ![w].pc = "locked"]
    /\ UNCHANGED <<now, rpm_limit, tpm_limit, ledger, lim_others>>

\* current_time = time.time() and the rest of the locked block: either record
\* the reservation and return, or leave the lock and sleep
CheckBudget(w) ==
    /\ workers[w].pc = "locked" /\ lock = w
    /\ LET key  == workers[w].key
           est  == workers[w].est
           wait_time == Max(rpm_wait_time(request_timestamps[key], now),
                            tpm_wait_time(token_counts[key], est, now))
       IN IF wait_time > 0
          THEN /\ workers' = [workers EXCEPT ![w].pc = "sleeping",
                                             ![w].wake = 10 * now + wait_time]
               /\ UNCHANGED <<request_timestamps, token_counts, ledger>>
          ELSE /\ request_timestamps' =
                     [request_timestamps EXCEPT ![key] = Append(@, now)]
               /\ token_counts' =
                     [token_counts EXCEPT ![key] = Append(@, [ts |-> now, tokens |-> est])]
               /\ ledger' = Append(ledger, [key |-> key, ts |-> now, tokens |-> est])
               /\ workers' = [workers EXCEPT ![w] = Idle]
    /\ lock' = 0
    /\ UNCHANGED <<now, rpm_limit, tpm_limit, lim_others>>

\* time.sleep(wait_time) is over: back to the top of the while loop
WakeUp(w) ==
    /\ workers[w].pc = "sleeping" /\ 10 * now >= workers[w].wake
    /\ workers' = [workers EXCEPT ![w].pc = "enter", ![w].wake = 0]
    /\ UNCHANGED <<now, rpm_limit, tpm_limit, request_timestamps, token_counts,
                   lock, ledger, lim_others>>

\* time passes, whatever the threads are doing
Advance(t) ==
    /\ t > now
    /\ now' = t
    /\ UNCHANGED <<rpm_limit, tpm_limit, request_timestamps, token_counts, lock,
                   workers, ledger, lim_others>>

NextLimiter ==
    \/ \E w \in Threads, key \in ApiKeys, est \in Estimates : CallWait(w, key, est)
    \/ \E w \in Threads : AcquireAndClean(w)
    \/ \E w \in Threads : CheckBudget(w)
    \/ \E w \in Threads : WakeUp(w)
    \/ \E t \in Instants : Advance(t)

SpecLimiter == InitLimiter /\ [][NextLimiter]_vars

InWindow(key, t) ==
    LET Inside(e) == e.key = key /\ e.ts > t - 60 /\ e.ts <= t
    IN SelectSeq(ledger, Inside)

\* C14: for each credential and each 60-second window, the reservations
\* recorded in the window number at most rpm_limit and their estimated tokens
\* sum to at most tpm_limit.
C14_WindowBudget ==
    \A key \in ApiKeys, t \in 0..MaxTime :
        /\ Len(InWindow(key, t)) <= rpm_limit
        /\ Tokens(InWindow(key, t)) <= tpm_limit

\* The limiter over unbounded time.  The clock reading is kept at 0 and the
\* stored timestamps and wake-up times move into the past as time passes,
\* which leaves every difference the code computes unchanged; a timestamp
\* older than the window is kept at window_seconds + 1 seconds of age.

ElapseSteps   == {30, 31}                      \* seconds between two observations
LiveEstimates == Estimates \cup {MaxTpm + 1}   \* one text estimated above tpm_limit

Aged(ts, d) == Max(ts - d, 0 - (window_seconds + 1))

\* d seconds pass
Elapse(d) ==
    /\ request_timestamps' =
          [k \in ApiKeys |-> [j \in DOMAIN request_timestamps[k] |->
                                 Aged(request_timestamps[k][j], d)]]
    /\ token_counts' =
          [k \in ApiKeys |-> [j \in DOMAIN token_counts[k] |->
                                 [token_counts[k][j] EXCEPT !.ts = Aged(@, d)]]]
    /\ workers' = [w \in Threads |->
                     [workers[w] EXCEPT !.wake = Max(@ - 10 * d, 0)]]
    /\ UNCHANGED <<now, rpm_limit, tpm_limit, lock, ledger, lim_others>>

NextLimiterLive ==
    \/ \E w \in Threads, key \in ApiKeys, est \in LiveEstimates : CallWait(w, key, est)
    \/ \E w \in Threads : AcquireAndClean(w)
    \/ \E w \in Threads : CheckBudget(w)
    \/ \E w \in Threads : WakeUp(w)
    \/ \E d \in ElapseSteps : Elapse(d)

\* time advances, a runnable thread runs, and a thread that keeps finding the
\* lock free now and again gets it; CallWait admits MaxCalls calls in all
SpecLimiterLive ==
    /\ InitLimiter /\ [][NextLimiterLive]_vars
    /\ WF_vars(\E d \in ElapseSteps : Elapse(d))
    /\ \A w \in Threads :
          /\ SF_vars(AcquireAndClean(w))
          /\ WF_vars(CheckBudget(w))
          /\ WF_vars(WakeUp(w))

\* C33: every call of wait_if_needed eventually records its reservation and
\* returns
C33_EveryCallReturns ==
    \A w \in Threads : (workers[w].pc # "idle") ~> (workers[w].pc = "idle")

----------------------------------------------------------------------------
(* vectorstore.load_or_create_vectorstore: processes sharing one index     *)
(* directory and its lock file.  FileLock (fcntl.flock) locks the inode    *)
(* that lock_path names when the file is opened.                           *)

MaxProcs  == 3         \* processes calling load_or_create_vectorstore
MaxInodes == 3         \* lock files that get created

Procs == 1..MaxProcs

NoLockFile == [inode |-> 0, aged |-> FALSE]

Holder(ino) == {q \in Procs : procs[q].fd = ino}

\* is_vectorstore_valid: a complete index is valid; a directory that is being
\* written may or may not hold documents already
LooksValid(dir, partial_counts) ==
    dir = "complete" \/ (dir = "partial" /\ partial_counts)

InitVectorstore ==
    /\ vs_dir \in {"absent", "complete"}
    /\ lock_file = NoLockFile
    /\ procs = [p \in Procs |-> [pc |-> "start", fd |-> 0]]
    /\ inodes = 0 /\ builds = 0
    /\ ClsIdle /\ RagIdle /\ BatchIdle /\ LimIdle /\ EvIdle /\ PrsIdle /\ EraIdle /\ XpIdle /\ FprIdle /\ WpIdle /\ ShIdle

\* the clean-up of orphaned lock files that precedes the locked block
StaleCleanup(p) ==
    /\ procs[p].pc = "start"
    /\ procs' = [procs EXCEPT ![p].pc = "acquire"]
    /\ \E partial_counts \in BOOLEAN :
         IF lock_file.inode # 0 /\ lock_file.aged
         THEN IF vs_dir # "absent"
              THEN IF ~ LooksValid(vs_dir, partial_counts)
                   THEN vs_dir' = "absent" /\ lock_file' = NoLockFile
                   ELSE UNCHANGED <<vs_dir, lock_file>>
              ELSE vs_dir' = vs_dir /\ lock_file' = NoLockFile
         ELSE UNCHANGED <<vs_dir, lock_file>>
    /\ UNCHANGED <<inodes, builds, vs_others>>

\* one attempt of FileLock.acquire: open (and create) lock_path, flock it
TryAcquire(p) ==
    /\ procs[p].pc = "acquire"
    /\ IF lock_file.inode = 0
       THEN /\ inodes < MaxInodes
            /\ inodes' = inodes + 1
            /\ lock_file' = [inode |-> inodes + 1, aged |-> FALSE]
            /\ procs' = [procs EXCEPT ![p] = [pc |-> "locked", fd |-> inodes + 1]]
       ELSE /\ lock_file' = [lock_file EXCEPT !.aged = FALSE]
            /\ procs' = IF Holder(lock_file.inode) = {}
                        THEN [procs EXCEPT ![p] = [pc |-> "locked", fd |-> lock_file.inode]]
                        ELSE procs
            /\ UNCHANGED inodes
    /\ UNCHANGED <<vs_dir, builds, vs_others>>

\* ten minutes without the lock: filelock.Timeout, caught by except Exception
LockTimeout(p) ==
    /\ procs[p].pc = "acquire"
    /\ lock_file.inode # 0 /\ Holder(lock_file.inode) # {}
    /\ procs' = [procs EXCEPT ![p].pc = "except"]
    /\ UNCHANGED <<vs_dir, lock_file, inodes, builds, vs_others>>

\* inside the lock on a valid index: load it and return
LoadExisting(p) ==
    /\ procs[p].pc = "locked"
    /\ \E partial_counts \in BOOLEAN : LooksValid(vs_dir, partial_counts)
    /\ procs' = [procs EXCEPT ![p].pc = "leave_ok"]
    /\ UNCHANGED <<vs_dir, lock_file, inodes, builds, vs_others>>

\* inside the lock without a valid index: Chroma.from_documents starts writing
BuildStart(p) ==
    /\ procs[p].pc = "locked"
    /\ \E partial_counts \in BOOLEAN : ~ LooksValid(vs_dir, partial_counts)
    /\ vs_dir' = "partial" /\ builds' = builds + 1
    /\ procs' = [procs EXCEPT ![p].pc = "building"]
    /\ UNCHANGED <<lock_file, inodes, vs_others>>

BuildFinish(p) ==
    /\ procs[p].pc = "building"
    /\ vs_dir' = "complete"
    /\ procs' = [procs EXCEPT ![p].pc = "leave_ok"]
    /\ UNCHANGED <<lock_file, inodes, builds, vs_others>>

\* reading the corpus, chunking or embedding raises
BuildFail(p) ==
    /\ procs[p].pc = "building"
    /\ procs' = [procs EXCEPT ![p].pc = "leave_err"]
    /\ UNCHANGED <<vs_dir, lock_file, inodes, builds, vs_others>>

\* the with block is left: flock released
Release(p) ==
    /\ procs[p].pc \in {"leave_ok", "leave_err"}
    /\ procs' = [procs EXCEPT ![p] = [pc |-> IF procs[p].pc = "leave_ok"
                                             THEN "finally" ELSE "except",
                                      fd |-> 0]]
    /\ UNCHANGED <<vs_dir, lock_file, inodes, builds, vs_others>>

\* except Exception: remove the index directory if there is one
ExceptCleanup(p) ==
    /\ procs[p].pc = "except"
    /\ vs_dir' = "absent"
    /\ procs' = [procs EXCEPT ![p].pc = "finally"]
    /\ UNCHANGED <<lock_file, inodes, builds, vs_others>>

\* finally: remove the lock file if there is one
FinallyRemoveLock(p) ==
    /\ procs[p].pc = "finally"
    /\ lock_file' = NoLockFile
    /\ procs' = [procs EXCEPT ![p].pc = "done"]
    /\ UNCHANGED <<vs_dir, inodes, builds, vs_others>>

\* the lock file has not been opened for more than ten minutes
LockAges ==
    /\ lock_file.inode # 0 /\ ~ lock_file.aged
    /\ lock_file' = [lock_file EXCEPT !.aged = TRUE]
    /\ UNCHANGED <<vs_dir, procs, inodes, builds, vs_others>>

NextVectorstore ==
    \/ \E p \in Procs : StaleCleanup(p)
    \/ \E p \in Procs : TryAcquire(p)
    \/ \E p \in Procs : LockTimeout(p)
    \/ \E p \in Procs : LoadExisting(p)
    \/ \E p \in Procs : BuildStart(p)
    \/ \E p \in Procs : BuildFinish(p)
    \/ \E p \in Procs : BuildFail(p)
    \/ \E p \in Procs : Release(p)
    \/ \E p \in Procs : ExceptCleanup(p)
    \/ \E p \in Procs : FinallyRemoveLock(p)
    \/ LockAges

SpecVectorstore == InitVectorstore /\ [][NextVectorstore]_vars

InCriticalSection(p) == procs[p].pc \in {"locked", "building", "leave_ok", "leave_err"}

\* C15: at most one process at a time is inside the locked build-or-load
\* block, and while one process builds the index no second build is started.
C15_OneBuilderAtATime ==
    /\ Cardinality({p \in Procs : InCriticalSection(p)}) <= 1
    /\ Cardinality({p \in Procs : procs[p].pc = "building"}) <= 1

\* another process is writing the index, or the index is complete
IndexInUse(p) ==
    \/ vs_dir = "complete"
    \/ \E q \in Procs \ {p} : procs[q].pc = "building"

\* C37: a call that cleans up a lock it considers stale, or that failed or
\* timed out waiting for the lock, never deletes the index directory of an
\* index that another process is building or that is complete, nor the lock
\* file that a building process holds
C37_CleanupSparesLiveIndex ==
    [][\A p \in Procs :
         (procs[p].pc \in {"start", "except"} /\ procs'[p] # procs[p] /\ IndexInUse(p))
            => /\ vs_dir' = vs_dir
               /\ (\E q \in Procs \ {p} : procs[q].pc = "building" /\ procs[q].fd = lock_file.inode)
                     => lock_file'.inode = lock_file.inode]_vars

----------------------------------------------------------------------------
(* evaluator.evaluate_response, statement by statement *)

EvQueries   == {"who wrote it"}
EvResponses == {"", "Paris", "Insufficient information"}
EvTruths    == {"Paris", "Lyon"}
JudgeReplies == OracleReplies \cup {"yes\n", "Right", "TRUE", "No", "", "Yes, it is correct", "NONE"}

NoPrompt == [question |-> "", ground_truth |-> "", predicted_answer |-> ""]

InitEvaluate ==
    /\ \E q \in EvQueries, r \in EvResponses, g \in EvTruths, reply \in JudgeReplies :
         judge = [pc |-> "start", query |-> q, response |-> r, ground_truth |-> g,
               service |-> reply, calls |-> 0, prompt |-> NoPrompt, out |-> FALSE]
    /\ ClsIdle /\ RagIdle /\ BatchIdle /\ LimIdle /\ VsIdle /\ PrsIdle /\ EraIdle /\ XpIdle /\ FprIdle /\ WpIdle /\ ShIdle

\* fill the template and call the judgment service
EvCall ==
    /\ judge.pc = "start"
    /\ judge' = [judge EXCEPT !.prompt = [question |-> judge.query,
                                    ground_truth |-> judge.ground_truth,
                                    predicted_answer |-> judge.response],
                        !.calls = judge.calls + 1,
                        !.pc = IF judge.service = "FAIL" THEN "except" ELSE "replied"]
    /\ UNCHANGED ev_others

\* strip, lower-case and compare with the positive tokens
EvJudge ==
    /\ judge.pc = "replied"
    /\ judge' = IF judge.service = "NONE"
             THEN [judge EXCEPT !.pc = "except"]
             ELSE [judge EXCEPT !.pc = "done",
                             !.out = NormalizeReply(judge.service) \in positive_responses]
    /\ UNCHANGED ev_others

EvExcept_retry ==
    /\ judge.pc = "except"
    /\ judge' = IF judge.calls < 2 THEN [judge EXCEPT !.pc = "start"]
             ELSE [judge EXCEPT !.pc = "done", !.out = FALSE]
    /\ UNCHANGED ev_others

\* except Exception: report and return False
EvExcept ==
    /\ judge.pc = "except"
    /\ judge' = [judge EXCEPT !.pc = "done", !.out = FALSE]
    /\ UNCHANGED ev_others

NextEvaluate == EvCall \/ EvJudge \/ EvExcept

SpecEvaluate == InitEvaluate /\ [][NextEvaluate]_vars

\* the replies that read as one of the four positive tokens once blanks
\* around them are dropped and case is ignored
ReadsPositive == {"True", " true ", "YES", "right", "yes\n", "Right", "TRUE"}

\* C16: an invocation never calls the judgment service more than once and has
\* called it exactly once when it returns; it returns true exactly for the
\* replies that trim and lower-case to a positive token, and false after a
\* failed call, which is not repeated.
C16_OneCallFailClosed ==
    /\ judge.pc # "idle" => judge.calls <= 1
    /\ judge.pc = "done" =>
         /\ judge.calls = 1
         /\ judge.out = (judge.service \in ReadsPositive)
         /\ judge.out = evaluate_response(judge.service)
         /\ judge.prompt = [question |-> judge.query, ground_truth |-> judge.ground_truth,
                         predicted_answer |-> judge.response]

C16_Witness ==
    /\ judge.pc = "done" /\ judge.service = "FAIL" /\ judge.calls = 1 /\ ~ judge.out

----------------------------------------------------------------------------
(* response_parser.parse_rag_response, statement by statement, followed by *)
(* a second call on the final_answer the first call returned               *)

NumVal == [type |-> "num", keys |-> {}, fa |-> NoField, ss |-> NoField]

\* 42
R_NUM == Raw(<<"42">>, FALSE, Ok(NumVal), Ok(NumVal), FALSE, Ok(NumVal), Ok(NumVal))
\* two thousand opening brackets: json.loads raises RecursionError
R_DEEP == Raw(<<"[[[[">>, FALSE, Err("RecursionError"), Err("SyntaxError"),
              FALSE, Err("SyntaxError"), Err("RecursionError"))

ParseSamples == RawOutputs \cup {R_NUM, R_DEEP}

\* what the decoders do on a text that is not one of the samples: plain words
Undecodable(t) == Raw(t, FALSE, Err("JSONDecodeError"), Err("SyntaxError"),
                      FALSE, Err("SyntaxError"), Err("JSONDecodeError"))

\* the decoders' behaviour on a string
DecodersOf(t) ==
    IF \E r \in ParseSamples : r.text = t
    THEN CHOOSE r \in ParseSamples : r.text = t
    ELSE Undecodable(t)

NoParse == [status |-> "none", answer |-> << >>, supporting |-> << >>]

\* the argument: None, a string, or another object (the integer 42)
ParseArgs ==
    {[kind |-> "none", raw |-> R_EMPTY], [kind |-> "obj", raw |-> R_NUM]}
    \cup {[kind |-> "str", raw |-> r] : r \in ParseSamples}

InitParse ==
    /\ \E a \in ParseArgs :
         prs = [pc |-> "start", round |-> 1, kind |-> a.kind, raw |-> a.raw,
                orig |-> a, decoded |-> "none", first |-> NoParse, second |-> NoParse]
    /\ ClsIdle /\ RagIdle /\ BatchIdle /\ LimIdle /\ VsIdle /\ EvIdle /\ EraIdle /\ XpIdle /\ FprIdle /\ WpIdle /\ ShIdle

PrsResult(r) == IF prs.round = 1 THEN [prs EXCEPT !.first = r, !.pc = "returned"]
                ELSE [prs EXCEPT !.second = r, !.pc = "returned"]

\* the None test and the str() conversion
PrsConvert ==
    /\ prs.pc = "start"
    /\ prs' = IF prs.kind = "none" THEN PrsResult(Parsed(<< >>, << >>))
              ELSE [prs EXCEPT !.kind = "str", !.pc = "decode"]
    /\ UNCHANGED prs_others

\* response_data = parse_json_safely(raw_response)
PrsDecode ==
    /\ prs.pc = "decode"
    /\ LET r == parse_json_safely(prs.raw) IN
       prs' = [prs EXCEPT !.decoded = IF r.status = "return" THEN r.val.type ELSE r.exc,
                          !.pc = IF r.status = "hang" THEN "hung" ELSE "extract"]
    /\ UNCHANGED prs_others

\* the extraction, the coercions and the except clause
PrsExtract ==
    /\ prs.pc = "extract"
    /\ LET out == parse_rag_response(prs.raw) IN
       prs' = IF out.status = "return" THEN PrsResult(out)
              ELSE [prs EXCEPT !.pc = "raised"]
    /\ UNCHANGED prs_others

\* the caller passes the returned final_answer to parse_rag_response again
PrsAgain ==
    /\ prs.pc = "returned" /\ prs.round = 1
    /\ prs' = [prs EXCEPT !.round = 2, !.pc = "start", !.decoded = "none",
                          !.kind = "str", !.raw = DecodersOf(prs.first.answer)]
    /\ UNCHANGED prs_others

NextParse == PrsConvert \/ PrsDecode \/ PrsExtract \/ PrsAgain

SpecParse == InitParse /\ [][NextParse]_vars

\* C19: parse_rag_response never raises and always returns; it returns the
\* raw text with an empty list whenever no rung decodes the output or the
\* decoded value is not a mapping holding both keys; with both keys present,
\* a final_answer of another type is returned stringified and a
\* supporting_sentences of another type as a singleton list.
C19_TotalWithFallback ==
    /\ prs.pc \notin {"raised", "hung"}
    /\ (prs.pc = "returned" /\ prs.round = 1 /\ prs.orig.kind # "none") =>
         LET raw == prs.orig.raw
             val == parse_json_safely(raw).val
         IN IF DecodesToMapping(raw) /\ HasBothKeys(raw)
            THEN /\ val.fa.type # "str" => prs.first.answer = StrOf(val.fa)
                 /\ val.ss.type # "list" => prs.first.supporting = <<StrOf(val.ss)>>
            ELSE prs.first = Parsed(raw.text, << >>)

\* the first call took the fallback: no rung decoded a mapping
FellBack ==
    /\ prs.orig.kind # "none"
    /\ prs.first.status = "return"
    /\ ~ DecodesToMapping(prs.orig.raw)

\* C20: when the first call falls back to the raw text and no sentences, the
\* call on the returned final_answer returns the same pair again.
C20_FallbackFixedPoint ==
    (prs.pc = "returned" /\ prs.round = 2 /\ FellBack) => prs.second = prs.first

C20_Witness ==
    /\ prs.pc = "returned" /\ prs.round = 2 /\ FellBack
    /\ prs.orig.raw = R_SETDICT
    /\ prs.first = Parsed(R_SETDICT.text, << >>) /\ prs.second = prs.first

----------------------------------------------------------------------------
(* evidence_analyzer.check_evidence_retrieval, item by item, on bounded     *)
(* evidence lists and ranked lists                                          *)

MaxItems   == 2        \* evidence items of a question
MaxContext == 2        \* documents in the context
MaxBackup  == 1        \* documents in the backup list

EraDocIds == {1, 2}

\* an item with an empty fact, one whose lookup raises, one that matches no
\* chunk, and items that match one or two chunks
EvidenceItems ==
    {Evidence(TRUE, TRUE, {1}), Evidence(FALSE, FALSE, {1}), Evidence(FALSE, TRUE, {}),
     Evidence(FALSE, TRUE, {1}), Evidence(FALSE, TRUE, {1, 2})}

SeqsUpTo(S, n) == UNION {[1..l -> S] : l \in 0..n}

\* (doc_id, score) tuples; a list may name a chunk twice
DocLists(n) == {[j \in DOMAIN ids |-> [id |-> ids[j], score |-> "cosine"]] :
                   ids \in SeqsUpTo(EraDocIds, n)}

InitEvidence ==
    /\ \E el \in SeqsUpTo(EvidenceItems, MaxItems), ctx \in DocLists(MaxContext),
          bak \in DocLists(MaxBackup), vs \in BOOLEAN :
         evid = [pc |-> "start", evidence_list |-> el, retrieved_docs |-> ctx,
                backup_docs |-> bak, vectorstore |-> vs, idx |-> 1,
                map |-> << >>, lookups |-> 0, out |-> NoAnalysis]
    /\ ClsIdle /\ RagIdle /\ BatchIdle /\ LimIdle /\ VsIdle /\ EvIdle /\ PrsIdle /\ XpIdle /\ FprIdle /\ WpIdle /\ ShIdle

\* the two early returns
EraGuards ==
    /\ evid.pc = "start"
    /\ evid' = IF evid.evidence_list = << >> \/ ~ evid.vectorstore
              THEN [evid EXCEPT !.pc = "done", !.out = NoAnalysis]
              ELSE [evid EXCEPT !.pc = "map"]
    /\ UNCHANGED era_others

\* one iteration of the loop that maps evidence items to chunk ids
EraLookup ==
    /\ evid.pc = "map" /\ evid.idx <= Len(evid.evidence_list)
    /\ LET item == evid.evidence_list[evid.idx] IN
       evid' = [evid EXCEPT !.map = Append(@, found_ids(item)),
                          !.lookups = IF item.fact_empty THEN @ ELSE @ + 1,
                          !.idx = @ + 1]
    /\ UNCHANGED era_others

\* the hit counts, AP and MRR, and the returned dict
EraScore ==
    /\ evid.pc = "map" /\ evid.idx > Len(evid.evidence_list)
    /\ evid' = [evid EXCEPT !.pc = "done",
                          !.out = check_evidence_retrieval(evid.evidence_list,
                                      evid.retrieved_docs, evid.backup_docs, TRUE)]
    /\ UNCHANGED era_others

NextEvidence == EraGuards \/ EraLookup \/ EraScore

SpecEvidence == InitEvidence /\ [][NextEvidence]_vars

Scored == evid.pc = "done" /\ evid.out.has_hits

AllTrueIds == UNION {evid.map[j] : j \in DOMAIN evid.map}

Ranked == evid.retrieved_docs \o evid.backup_docs

RelevantRanks == {r \in DOMAIN Ranked : Ranked[r].id \in AllTrueIds}

InUnitInterval(x) == x.num >= 0 /\ x.den > 0 /\ x.num <= x.den

\* C21: AP and the reciprocal rank lie in [0,1]; the reciprocal rank is 1/r
\* for the rank r of the first relevant document of context + backup and 0
\* when none is retrieved; AP is 0 when no document matches the evidence.
C21_ScoresInUnitInterval ==
    Scored =>
        /\ InUnitInterval(ap(evid.out)) /\ InUnitInterval(mrr_score(evid.out))
        /\ IF RelevantRanks = {} THEN mrr_score(evid.out) = Zero /\ ap(evid.out) = Zero
           ELSE mrr_score(evid.out) =
                    Rat(1, CHOOSE r \in RelevantRanks : \A q \in RelevantRanks : r <= q)

IdsOf(docs) == {docs[j].id : j \in DOMAIN docs}

\* C27: the hit counts count distinct chunk ids: context_hits is the number
\* of true ids in the context, backup_hits the number of true ids of the pool
\* that are not in the context, total_evidence the number of true ids; so
\* both are non-negative and together never exceed total_evidence.
C27_DistinctIdCounts ==
    Scored =>
        LET hc == evid.out.hit_counts IN
        /\ hc.context_hits = Cardinality(IdsOf(evid.retrieved_docs) \cap AllTrueIds)
        /\ hc.backup_hits =
              Cardinality((IdsOf(evid.retrieved_docs) \cup IdsOf(evid.backup_docs))
                              \cap AllTrueIds) - hc.context_hits
        /\ hc.total_evidence = Cardinality(AllTrueIds)
        /\ hc.context_hits >= 0 /\ hc.backup_hits >= 0
        /\ hc.context_hits + hc.backup_hits <= hc.total_evidence

\* a chunk named twice in the context and once more in the backup list
C27_Witness ==
    /\ Scored /\ Len(evid.retrieved_docs) = 2
    /\ evid.retrieved_docs[1].id = evid.retrieved_docs[2].id
    /\ evid.backup_docs # << >> /\ evid.backup_docs[1].id # evid.retrieved_docs[1].id
    /\ evid.out.hit_counts.context_hits = 1 /\ evid.out.hit_counts.backup_hits = 1
    /\ evid.out.hit_counts.total_evidence = 2

\* C28: an item whose lookup fails, and an item with an empty fact, map to
\* the empty id set; no lookup is made for an empty fact; the analysis goes
\* through every item and returns hit counts computed from the other items.
C28_LookupFailureIsolated ==
    /\ \A j \in DOMAIN evid.map :
          (evid.evidence_list[j].fact_empty \/ ~ evid.evidence_list[j].lookup_ok)
              => evid.map[j] = {}
    /\ evid.pc \in {"map", "done"} =>
          evid.lookups = Cardinality({j \in DOMAIN evid.map : ~ evid.evidence_list[j].fact_empty})
    /\ (evid.pc = "done" /\ evid.evidence_list # << >> /\ evid.vectorstore) =>
          /\ evid.out.has_hits /\ Len(evid.map) = Len(evid.evidence_list)
          /\ evid.out.hit_counts.total_evidence = Cardinality(AllTrueIds)

C28_Witness ==
    /\ Scored /\ Len(evid.evidence_list) = 2
    /\ ~ evid.evidence_list[1].lookup_ok /\ evid.map[1] = {}
    /\ evid.evidence_list[2] = Evidence(FALSE, TRUE, {1, 2})
    /\ evid.lookups = 2 /\ evid.out.hit_counts.context_hits >= 1


\* ---------------------------------------------------------------------------
\* Transport calls: SiliconFlowEmbeddings._call_api and SiliconFlowReranker.rerank
\* ---------------------------------------------------------------------------

\* stop_after_attempt(2) of the retry decorator
retry_attempts == 2

\* frames of the decorated method the interpreter allows before RecursionError
MaxDepth == 3

\* EMBEDDING_API_KEYS, the pool get_next_api_key draws from
EMBEDDING_API_KEYS == {1, 2}

TransportKinds == {"embed", "rerank"}

\* what one HTTP post can come back with: a well-formed body, a body without
\* the expected key, a rate-limit error, any other request error (timeout included)
HttpReplies == {"ok", "bad_format", "rate_limit", "error"}

InitTransport ==
    /\ \E kind \in TransportKinds, key \in EMBEDDING_API_KEYS :
         xport = [pc |-> "call", kind |-> kind, api_key |-> key,
                  stack |-> <<1>>, http |-> 0, result |-> "none"]
    /\ ClsIdle /\ RagIdle /\ BatchIdle /\ LimIdle /\ VsIdle /\ EvIdle /\ PrsIdle /\ EraIdle /\ FprIdle /\ WpIdle /\ ShIdle

\* the exception leaves the frame on top of the stack: its retry wrapper decides
XpRaised(x) == [x EXCEPT !.pc = "raised"]

\* one run of the method body: the post, then return, recursion or raise
XpAttempt ==
    /\ xport.pc = "call"
    /\ \E reply \in HttpReplies, key \in EMBEDDING_API_KEYS :
         LET posted == [xport EXCEPT !.http = @ + 1]
         IN xport' =
              CASE reply = "ok" ->
                     [posted EXCEPT !.pc = "done", !.stack = << >>, !.result = "value"]
                [] reply = "rate_limit" ->
                     IF Len(xport.stack) < MaxDepth
                     THEN [posted EXCEPT !.api_key = key, !.stack = Append(@, 1)]
                     ELSE XpRaised([posted EXCEPT !.api_key = key])
                [] OTHER -> XpRaised(posted)
    /\ UNCHANGED xp_others

\* the retry wrapper of the top frame runs the body again after the backoff
XpRetry ==
    /\ xport.pc = "raised"
    /\ xport.stack[Len(xport.stack)] < retry_attempts
    /\ xport' = [xport EXCEPT !.pc = "call", !.stack[Len(xport.stack)] = @ + 1]
    /\ UNCHANGED xp_others

\* the retry wrapper of the top frame gives up: RetryError goes to the caller,
\* which is the body of the frame below or the caller of the transport call
XpGiveUp ==
    /\ xport.pc = "raised"
    /\ xport.stack[Len(xport.stack)] >= retry_attempts
    /\ LET rest == SubSeq(xport.stack, 1, Len(xport.stack) - 1)
       IN xport' = IF rest = << >>
                   THEN [xport EXCEPT !.pc = "done", !.stack = << >>, !.result = "raised"]
                   ELSE [xport EXCEPT !.stack = rest]
    /\ UNCHANGED xp_others

NextTransport == XpAttempt \/ XpRetry \/ XpGiveUp

SpecTransport == InitTransport /\ [][NextTransport]_vars

\* C23: a transport call makes at most two HTTP attempts, also when the service
\* keeps answering with rate-limit errors and the key is rotated
C23_BoundedAttempts ==
    xport.pc # "idle" => xport.http <= retry_attempts


\* ---------------------------------------------------------------------------
\* cache_manager.generate_cache_filename: the fingerprint of a configuration
\* ---------------------------------------------------------------------------

\* A string is a sequence of tokens; the tokens are chosen so that no string
\* has two tokenisations, which makes equality of sequences equality of strings.

RECURSIVE str_replace(_, _, _)
\* s.replace(old, new): every non-overlapping occurrence, left to right
str_replace(s, old, new) ==
    IF Len(s) < Len(old) THEN s
    ELSE IF SubSeq(s, 1, Len(old)) = old
         THEN new \o str_replace(SubSeq(s, Len(old) + 1, Len(s)), old, new)
         ELSE <<Head(s)>> \o str_replace(Tail(s), old, new)

RECURSIVE last_segment(_)
\* s.split('/')[-1]
last_segment(s) ==
    IF \E j \in DOMAIN s : s[j] = "/"
    THEN last_segment(Tail(s)) ELSE s

\* normalize_embedding_model_name
normalize_embedding_model_name(embedding_model) ==
    str_replace(embedding_model, <<"Pro", "/", "BAAI", "/", "bge", "-", "m3">>,
                <<"BAAI", "/", "bge", "-", "m3">>)

\* the shortening applied to the response model and to the evaluate model
model_short(name) ==
    str_replace(str_replace(str_replace(name, <<"gpt", "-">>, <<"gpt">>),
                            <<"anthropic", "/">>, << >>),
                <<"claude", "-">>, <<"claude">>)

generate_cache_filename(selected_params, cache_version) ==
    LET dataset_short ==
            str_replace(str_replace(selected_params.dataset,
                                    <<"MultiHop", "-", "RAG">>, <<"MultiHop", "RAG">>),
                        <<"yixuantt", "/">>, << >>)
        rag_model_short == model_short(selected_params.rag_response_model)
        embedding_model_short ==
            str_replace(last_segment(
                            normalize_embedding_model_name(selected_params.embedding_model)),
                        <<"Embedding", "-">>, <<"Emb">>)
        rerank_model_short ==
            IF selected_params.rerank_model # <<"none">>
            THEN str_replace(selected_params.rerank_model,
                             <<"Pro", "/", "BAAI", "/", "bge", "-", "reranker">>,
                             <<"BAAI", "/", "bge", "-", "reranker">>)
            ELSE << >>
        evaluate_model_short == model_short(selected_params.evaluate_model)
        filename ==
            <<"cache_">> \o dataset_short \o <<"_">> \o rag_model_short
               \o <<"_">> \o embedding_model_short \o <<"_">> \o rerank_model_short
               \o <<"_">> \o evaluate_model_short
               \o <<"_k">> \o selected_params.k
               \o <<"_rerank">> \o selected_params.rerank_range
               \o <<"_chunk">> \o selected_params.chunk_size
               \o <<"_overlap">> \o selected_params.chunk_overlap
               \o <<"_">> \o cache_version
    IN [j \in DOMAIN filename |->
           IF filename[j] \in {"/", "-", "."} THEN "_" ELSE filename[j]] \o <<".pkl">>

CACHE_VERSION == <<"v2", ".", "0">>

\* the values a request can carry for each tunable parameter
ParamValues ==
    [dataset            |-> {<<"MultiHop", "-", "RAG">>, <<"hotpot">>},
     corpus             |-> {<<"corpus">>, <<"wiki">>},
     rag_response_model |-> {<<"gpt", "-", "4o", "-", "mini">>,
                             <<"anthropic", "/", "claude", "-", "3">>},
     embedding_model    |-> {<<"Pro", "/", "BAAI", "/", "bge", "-", "m3">>,
                             <<"BAAI", "/", "bge", "-", "m3">>,
                             <<"Qwen", "/", "Qwen3", "-", "Embedding", "-", "4B">>},
     rerank_model       |-> {<<"none">>,
                             <<"Pro", "/", "BAAI", "/", "bge", "-", "reranker">>,
                             <<"Qwen", "/", "Qwen3", "-", "Reranker", "-", "4B">>},
     evaluate_model     |-> {<<"gpt", "-", "4o", "-", "mini">>, <<"gpt", "-", "4o">>},
     k                  |-> {<<"5">>, <<"10">>},
     rerank_range       |-> {<<"20">>, <<"30">>},
     chunk_size         |-> {<<"1000">>, <<"500">>},
     chunk_overlap      |-> {<<"100">>, <<"50">>}]

ParamNames == DOMAIN ParamValues

\* the requests: one value per tunable parameter
BaseParams ==
    [dataset : ParamValues.dataset, corpus : ParamValues.corpus,
     rag_response_model : ParamValues.rag_response_model,
     embedding_model : ParamValues.embedding_model,
     rerank_model : ParamValues.rerank_model,
     evaluate_model : ParamValues.evaluate_model,
     k : ParamValues.k, rerank_range : ParamValues.rerank_range,
     chunk_size : ParamValues.chunk_size, chunk_overlap : ParamValues.chunk_overlap]

NoName == << >>

InitFingerprint ==
    /\ \E a \in BaseParams :
         \E n \in ParamNames : \E v \in ParamValues[n] :
            fpr = [pc |-> "requested", first |-> a, second |-> [a EXCEPT ![n] = v],
                   first_file |-> NoName, second_file |-> NoName]
    /\ ClsIdle /\ RagIdle /\ BatchIdle /\ LimIdle /\ VsIdle /\ EvIdle /\ PrsIdle /\ XpIdle /\ EraIdle /\ WpIdle /\ ShIdle

\* load_individual_cache / save_individual_cache name the record of each request
NameRecords ==
    /\ fpr.pc = "requested"
    /\ fpr' = [fpr EXCEPT !.pc = "named",
                  !.first_file  = generate_cache_filename(fpr.first, CACHE_VERSION),
                  !.second_file = generate_cache_filename(fpr.second, CACHE_VERSION)]
    /\ UNCHANGED fpr_others

NextFingerprint == NameRecords

SpecFingerprint == InitFingerprint /\ [][NextFingerprint]_vars

\* C31: two requests map to the same cache record exactly when their tunable
\* parameters are equal
C31_FingerprintInjective ==
    fpr.pc = "named" => ((fpr.first_file = fpr.second_file) <=> (fpr.first = fpr.second))


\* ---------------------------------------------------------------------------
\* SimpleWorkflow._test_rag_concurrent: the worker threads, the driver thread
\* and the persistence callback
\* ---------------------------------------------------------------------------

MaxPoolQ   == 11     \* questions submitted to the executor
MaxWorkers == 2      \* max_workers of the ThreadPoolExecutor

\* the driver thread calls save_func() and continues when it has returned
driver_during_save_async == "wait"

driver_during_save == "saving"

\* sets of questions whose result comes back with an empty response
PoolEmptyResponses == {{2}, {3, 7}}

NoSnapshot == [exists |-> FALSE, complete |-> TRUE, results |-> << >>]

InitPool ==
    /\ \E bad \in PoolEmptyResponses, n \in {MaxPoolQ} :
         wp = [pc |-> "wait", n |-> n, bad |-> bad, started |-> 0, running |-> {},
               done |-> {}, results |-> [i \in 1..n |-> FALSE], processed_count |-> 0,
               saving |-> 0, opened |-> << >>, file |-> NoSnapshot]
    /\ ClsIdle /\ RagIdle /\ BatchIdle /\ LimIdle /\ VsIdle /\ EvIdle /\ PrsIdle /\ FprIdle /\ XpIdle /\ EraIdle /\ ShIdle

\* a free worker thread picks up the next submitted future
PoolStart ==
    /\ wp.pc # "idle" /\ wp.started < wp.n /\ Cardinality(wp.running) < MaxWorkers
    /\ wp' = [wp EXCEPT !.started = @ + 1, !.running = @ \cup {wp.started + 1}]
    /\ UNCHANGED wp_others

\* _process_rag_question returns in a worker thread: the future is done
PoolFinish(i) ==
    /\ i \in wp.running
    /\ wp' = [wp EXCEPT !.running = @ \ {i}, !.done = @ \cup {i}]
    /\ UNCHANGED wp_others

\* the driver thread takes a done future from as_completed: the try block with
\* the store into the slot, then the finally block up to the interval test
DriverHandle(i) ==
    /\ wp.pc = "wait" /\ i \in wp.done
    /\ wp' = [wp EXCEPT !.done = @ \ {i},
                        !.results[i] = (i \notin wp.bad),
                        !.processed_count = @ + 1,
                        !.pc = IF (wp.processed_count + 1) % concurrent_interval = 0
                               THEN "save" ELSE "wait"]
    /\ UNCHANGED wp_others

\* save_func(): open(cache_file, 'wb') truncates the file
SaveOpen ==
    /\ wp.pc = "save"
    /\ wp' = [wp EXCEPT !.saving = @ + 1, !.opened = wp.results,
                        !.file = [exists |-> TRUE, complete |-> FALSE, results |-> << >>],
                        !.pc = driver_during_save]
    /\ UNCHANGED wp_others

\* pickle.dump writes the list as it is now and the file is closed
SaveDump ==
    /\ wp.pc # "idle" /\ wp.saving > 0
    /\ wp' = [wp EXCEPT !.saving = @ - 1,
                        !.file = [exists |-> TRUE, complete |-> TRUE, results |-> wp.results],
                        !.pc = IF wp.pc = "saving" THEN "wait" ELSE wp.pc]
    /\ UNCHANGED wp_others

\* as_completed is exhausted: the loop ends
PoolLoopEnd ==
    /\ wp.pc = "wait" /\ wp.processed_count = wp.n
    /\ wp' = [wp EXCEPT !.pc = "finished"]
    /\ UNCHANGED wp_others

NextPool ==
    \/ PoolStart
    \/ \E i \in 1..MaxPoolQ : PoolFinish(i)
    \/ \E i \in 1..MaxPoolQ : DriverHandle(i)
    \/ SaveOpen
    \/ SaveDump
    \/ PoolLoopEnd

SpecPool == InitPool /\ [][NextPool]_vars

\* C32: within one run of the worker pool at most one invocation of the
\* persistence callback is in progress, no slot of the results array changes
\* while one is in progress, and the snapshot an invocation leaves is the
\* array as it was when the invocation began
C32_SavesSerialized ==
    [][wp.pc # "idle" =>
         /\ wp'.saving <= 1
         /\ (wp.saving > 0) => (wp'.results = wp.results)
         /\ (wp'.saving < wp.saving) =>
               (wp'.file.complete /\ wp'.file.results = wp.opened)]_vars

\* a checkpoint has been written while workers were still running, with a
\* stored result and a placeholder left by an empty response in the snapshot
C32_Witness ==
    /\ wp.pc = "wait" /\ wp.file.exists /\ wp.file.complete
    /\ wp.processed_count = concurrent_interval /\ wp.running # {}
    /\ \E i \in DOMAIN wp.file.results : wp.file.results[i]
    /\ \E j \in wp.bad : ~ wp.file.results[j] /\ j \notin wp.running \cup wp.done


----------------------------------------------------------------------------
(* server.evaluate_configuration called by two clients for one             *)
(* configuration at the same time: each request thread loads the record,   *)
(* runs the sequential loop on its own results array and writes the whole  *)
(* array to the one cache file of the configuration                        *)

Requests == {1, 2}

\* what the generator may answer to a question
Answers == {"Paris", "In Paris"}

EmptySlot == [filled |-> FALSE, response |-> ""]

MissingFile == [exists |-> FALSE, results |-> << >>]

\* load_individual_cache followed by cached_result.get('rag_result', {}).get('results')
stored_results(file, n) ==
    IF file.exists THEN file.results ELSE [i \in 1..n |-> EmptySlot]

IdleRequest == [pc |-> "idle", results |-> << >>, i |-> 0, processed_count |-> 0]

InitShared ==
    /\ \E a \in [Requests -> Answers] :
         sh = [pc |-> "run", n |-> MaxSequentialQ, answer |-> a, file |-> MissingFile,
               req |-> [r \in Requests |-> IdleRequest]]
    /\ ClsIdle /\ RagIdle /\ BatchIdle /\ LimIdle /\ VsIdle /\ EvIdle /\ PrsIdle /\ WpIdle /\ FprIdle /\ XpIdle /\ EraIdle

\* the request arrives: load the record, answer from it if it is complete,
\* else enter the loop with the array it holds
RequestArrives(r) ==
    /\ sh.pc = "run" /\ sh.req[r].pc = "idle"
    /\ sh' = IF cache_complete(sh.file, sh.n)
             THEN [sh EXCEPT !.req[r].pc = "cached"]
             ELSE [sh EXCEPT !.req[r] = [pc |-> "loop",
                                         results |-> stored_results(sh.file, sh.n),
                                         i |-> 1, processed_count |-> 0]]
    /\ UNCHANGED sh_others

\* one iteration of the loop of request r, with its checkpoint
RequestIteration(r) ==
    /\ sh.pc = "run" /\ sh.req[r].pc = "loop" /\ sh.req[r].i <= sh.n
    /\ LET q    == sh.req[r]
           res  == IF needs_processing(q.results, q.i)
                   THEN [q.results EXCEPT ![q.i] = [filled |-> TRUE,
                                                    response |-> sh.answer[r]]]
                   ELSE q.results
           cnt  == IF needs_processing(q.results, q.i)
                   THEN q.processed_count + 1 ELSE q.processed_count
           save == needs_processing(q.results, q.i) /\ cnt % test_size = 0
       IN sh' = [sh EXCEPT !.req[r] = [pc |-> "loop", results |-> res, i |-> q.i + 1,
                                       processed_count |-> cnt],
                           !.file = IF save THEN [exists |-> TRUE, results |-> res]
                                    ELSE sh.file]
    /\ UNCHANGED sh_others

\* the loop of request r has ended: save_callback() and the save that
\* follows cached_result.update(final_result)
RequestReturns(r) ==
    /\ sh.pc = "run" /\ sh.req[r].pc = "loop" /\ sh.req[r].i > sh.n
    /\ sh' = [sh EXCEPT !.req[r].pc = "returned",
                        !.file = [exists |-> TRUE, results |-> sh.req[r].results]]
    /\ UNCHANGED sh_others

NextShared ==
    \/ \E r \in Requests : RequestArrives(r)
    \/ \E r \in Requests : RequestIteration(r)
    \/ \E r \in Requests : RequestReturns(r)

SpecShared == InitShared /\ [][NextShared]_vars

\* C38: a slot that is filled in the persisted record stays filled with the
\* same result at every later write, also while two requests for the
\* configuration are running
C38_PersistedSlotsStable ==
    [][\A i \in DOMAIN sh.file.results :
          sh.file.results[i].filled => sh'.file.results[i] = sh.file.results[i]]_vars

====
